---- MODULE Spec2Model ----
(***************************************************************************)
(* Model of the hyperliquid-bot trading core.                              *)
(*                                                                         *)
(*   - risk.Checker (usecase/risk): the risk gate with its RWMutex, the    *)
(*     calls of its callers taken step by step: one caller over the whole  *)
(*     range of the clock (SpecRisk), three concurrent callers             *)
(*     (SpecRiskConc);                                                     *)
(*   - Bot (cmd/bot/main.go): the dispatcher, its lifecycle and its tick   *)
(*     pipeline  ticker -> strategy -> risk -> order, with the             *)
(*     mean-reversion strategy and the exchange gateway it is wired to     *)
(*     (Spec);                                                             *)
(*   - AISignalStrategy (the signal-driven strategy) and                   *)
(*     MeanReversionStrategy, each called method by method with the        *)
(*     market states, orders and positions a dispatcher gives them         *)
(*     (SpecAI, SpecMR);                                                   *)
(*   - Bot.onTicker called by two goroutines of the exchange gateway       *)
(*     (SpecFeed), and the order update handler of Bot and BotUseCase      *)
(*     called by the gateway (SpecOrd);                                    *)
(*   - signal.Provider: Start, Stop, SubscribeSignals, the collectData     *)
(*     goroutine with GetMarketSignal and broadcastSignal, and the         *)
(*     callbacks of the sources' polling goroutines (SpecProv); its cache  *)
(*     under a running clock (SpecCache);                                  *)
(*   - MarketSignal.AnalyzeSignal and WhaleAlert.GetAlertType called on    *)
(*     inputs around every threshold (SpecFuse);                           *)
(*   - the strategy stopped and used again (SpecStop), the tick handler    *)
(*     beside the order handler (SpecSnap), the dry-run pipeline over      *)
(*     stops and starts (SpecDry), the signal-driven strategy following    *)
(*     one position (SpecTrail);                                           *)
(*   - the provider's cache of two symbols with a reader of the signal     *)
(*     (SpecShare, SpecEvict), and its collectData goroutines over starts  *)
(*     and stops, the clock in seconds (SpecLoop).                         *)
(*                                                                         *)
(* Units.  PnL is counted in thousandths (the failure sentinel -0.001 is   *)
(* -1), the clock in minutes, quantities in multiples of the configured    *)
(* risk MaxPositionSize.  For AISignalStrategy sizes are in USD, signal    *)
(* strength and confidence in hundredths, percentages in ten-thousandths.  *)
(* In the fuser the scores are in ten-thousandths, the funding rate in     *)
(* millionths, ratios and probabilities in hundredths, the strength an     *)
(* exact fraction and the confidence a number of fifths.                   *)
(***************************************************************************)
EXTENDS Integers, Sequences, FiniteSets, TLC

\* ------------------------------------------------------------------ bounds
\* The clock runs from 0 to MaxTime minutes.
MaxTime == 7
\* |dailyPnL| stays within MaxAbsPnL thousandths (guard of the callers).
MaxAbsPnL == 5
\* A dispatcher that is not running is started at most MaxStarts times.
MaxStarts == 1
\* The pipeline lets at most MaxEmit signals through the risk gate.
MaxEmit == 4

\* ----------------------------------------------------- risk configuration
\* risk.Config as built by newBot / DefaultConfig; MaxDailyLoss is 0.003.
MaxPositionSize == 1
MaxDailyLoss == 3
MaxConsecutiveLoss == 3
CooldownDuration == 5

\* The pnl amounts callers record: losses, break-even, a win.
PnLValues == {-2, -1, 0, 1}
HaltReasons == {"manual"}

\* Callers of the risk gate.
RiskThreads == {"t1", "t2", "t3"}
\* Callers of the dispatcher's Start and Stop.
LifeThreads == {"c1", "c2"}

NONE == "none"

VARIABLES
    risk,        \* Checker fields: halted, haltReason, dailyPnL, consecutiveLoss, cooldownUntil
    mu,          \* Checker.mu (sync.RWMutex): w = writer holding it or NONE, r = readers holding it
    now,         \* time.Now(), minutes
    call,        \* per risk caller: the call in progress and its position
    ledger,      \* history: sum of the pnl amounts recorded since the last ResetDaily
    haltActive,  \* history: Halt has taken effect and no Resume has since
    streak,      \* history: losses recorded in a row since the last win, Resume or cooldown start
    cooldownFrom,\* history: the clock when the latest cooldown started, -1 before the first
    cooldownPrev,\* history: cooldownUntil as it was when the latest cooldown started
    cfg,         \* Bot.dryRun and the strategy's configured position_size
    running,     \* Bot.running
    position,    \* Bot.position
    orders,      \* Bot.orders
    strat,       \* MeanReversionStrategy fields
    exch,        \* HyperliquidExchange: wsConnected, number of ticker handlers
    life,        \* per lifecycle caller: the Start or Stop in progress and its position
    tick,        \* the exchange's read loop: the tick being handled and its position
    obs,         \* history: what the dispatcher has called so far
    ai,          \* AISignalStrategy fields
    lastCall,    \* history: the latest call made on a strategy or handler, its arguments and result
    loops,       \* the exchange's read loops when there can be several, each with its position
    smu,         \* the strategy's mu: the read loop holding it, or NONE
    prov,        \* signal.Provider fields, its mu and its producers' polling goroutines
    gor          \* the Provider's callers and build loops, each with its position

histVars == <<ledger, haltActive, streak, cooldownFrom, cooldownPrev>>
auxVars == <<ai, lastCall, loops, smu, prov, gor>>
botVars == <<cfg, running, position, orders, strat, exch, life, tick, obs, auxVars>>

vars ==
    <<risk, mu, now, call, ledger, haltActive, streak, cooldownFrom, cooldownPrev,
      cfg, running, position, orders, strat, exch, life, tick, obs,
      ai, lastCall, loops, smu, prov, gor>>

\* ------------------------------------------------------------ risk.Checker

\* NewChecker: the zero values of the fields; cooldownUntil is the zero time,
\* which no clock value is before.
NewChecker ==
    [halted |-> FALSE, haltReason |-> "", dailyPnL |-> 0,
     consecutiveLoss |-> 0, cooldownUntil |-> 0]

\* CheckResult.  A reason is a text followed, for a halt, by the halt's reason
\* and, for a cooldown, by cooldownUntil.
Reason(msg, halt, until) == [msg |-> msg, halt |-> halt, until |-> until]
Allowed == [Allowed |-> TRUE, Reason |-> Reason("", "", 0)]
Denied(reason) == [Allowed |-> FALSE, Reason |-> reason]
HaltedReason(r) == Reason("trading halted: ", r.haltReason, 0)
CooldownReason(r) == Reason("in cooldown until ", "", r.cooldownUntil)
DailyLossReason == Reason("daily loss limit exceeded", "", 0)

\* Mutant of CanTradeOf: the daily-loss test with <= for <.
CanTradeOf_LossInclusive(r, t) ==
    IF r.halted THEN Denied(HaltedReason(r))
    ELSE IF t < r.cooldownUntil THEN Denied(CooldownReason(r))
    ELSE IF r.dailyPnL <= -MaxDailyLoss THEN Denied(DailyLossReason)
    ELSE Allowed

\* Mutant of CanTradeOf: the cooldown test left out.
CanTradeOf_NoCooldown(r, t) ==
    IF r.halted THEN Denied(HaltedReason(r))
    ELSE IF r.dailyPnL < -MaxDailyLoss THEN Denied(DailyLossReason)
    ELSE Allowed

\* Body of CanTrade on the fields r at clock t.
CanTradeOf(r, t) ==
    IF r.halted THEN Denied(HaltedReason(r))
    ELSE IF t < r.cooldownUntil THEN Denied(CooldownReason(r))
    ELSE IF r.dailyPnL < -MaxDailyLoss THEN Denied(DailyLossReason)
    ELSE Allowed

\* Mutant of CheckPositionSize: every size passes.
CheckPositionSize_AllPass(size) == Allowed

\* CheckPositionSize.
CheckPositionSize(size) ==
    IF size > MaxPositionSize THEN Denied(Reason("position size exceeds maximum", "", 0))
    ELSE Allowed

\* Mutant of RecordTradeStore: the counter is left standing when the cooldown starts.
RecordTradeStore_NoReset(r, loaded, pnl, t) ==
    LET r1 == [r EXCEPT !.dailyPnL = loaded + pnl] IN
    IF pnl < 0
    THEN LET n == r1.consecutiveLoss + 1 IN
         IF n >= MaxConsecutiveLoss
         THEN [r1 EXCEPT !.cooldownUntil = t + CooldownDuration,
                         !.consecutiveLoss = n]
         ELSE [r1 EXCEPT !.consecutiveLoss = n]
    ELSE [r1 EXCEPT !.consecutiveLoss = 0]

\* Body of RecordTrade after `c.dailyPnL += pnl` has loaded the old value:
\* stores loaded + pnl and does the consecutive-loss accounting at clock t.
RecordTradeStore(r, loaded, pnl, t) ==
    LET r1 == [r EXCEPT !.dailyPnL = loaded + pnl] IN
    IF pnl < 0
    THEN LET n == r1.consecutiveLoss + 1 IN
         IF n >= MaxConsecutiveLoss
         THEN [r1 EXCEPT !.cooldownUntil = t + CooldownDuration,
                         !.consecutiveLoss = 0]
         ELSE [r1 EXCEPT !.consecutiveLoss = n]
    ELSE [r1 EXCEPT !.consecutiveLoss = 0]

\* RecordTrade as one critical section.
RecordTradeOf(r, pnl, t) == RecordTradeStore(r, r.dailyPnL, pnl, t)

\* Mutant of HaltOf: Halt also restarts the count of consecutive losses.
HaltOf_ResetsLosses(r, reason) ==
    [r EXCEPT !.halted = TRUE, !.haltReason = reason, !.consecutiveLoss = 0]

HaltOf(r, reason) == [r EXCEPT !.halted = TRUE, !.haltReason = reason]

\* Mutant of ResumeOf: Resume also ends the cooldown.
ResumeOf_ClearsCooldown(r) ==
    [r EXCEPT !.halted = FALSE, !.haltReason = "", !.consecutiveLoss = 0, !.cooldownUntil = 0]

ResumeOf(r) == [r EXCEPT !.halted = FALSE, !.haltReason = "", !.consecutiveLoss = 0]

\* Mutant of ResetDailyOf: the daily reset also lifts the halt.
ResetDailyOf_LiftsHalt(r) == [r EXCEPT !.dailyPnL = 0, !.halted = FALSE, !.haltReason = ""]

ResetDailyOf(r) == [r EXCEPT !.dailyPnL = 0]

\* Mutant of CanLock: writers exclude readers but not each other.
CanLock_WritersShare(m) == m.r = {}

\* sync.RWMutex: Lock waits for the writer and the readers to leave,
\* RLock for the writer.
CanLock(m) == m.w = NONE /\ m.r = {}
CanRLock(m) == m.w = NONE

\* ------------------------------------------------- calls on the risk gate

NoResult == [Allowed |-> FALSE, Reason |-> Reason(NONE, "", 0)]
IdleCall ==
    [op |-> NONE, arg |-> 0, reason |-> "", pc |-> "idle", tmp |-> 0, at |-> 0, ret |-> NoResult]

RECURSIVE SumPending(_)
\* Sum of the amounts of the RecordTrade calls of the threads S not yet stored.
SumPending(S) ==
    IF S = {} THEN 0
    ELSE LET t == CHOOSE x \in S : TRUE
             a == IF call[t].op = "RecordTrade" /\ call[t].pc \in {"lock", "load", "store"}
                  THEN call[t].arg ELSE 0
         IN a + SumPending(S \ {t})

\* History of a recorded trade: the ledger, the run of losses, and the start of
\* a cooldown when the run reaches MaxConsecutiveLoss.
Recorded(pnl) ==
    /\ ledger' = ledger + pnl
    /\ IF pnl < 0 /\ streak + 1 >= MaxConsecutiveLoss
       THEN /\ streak' = 0
            /\ cooldownFrom' = now
            /\ cooldownPrev' = risk.cooldownUntil
       ELSE /\ streak' = (IF pnl < 0 THEN streak + 1 ELSE 0)
            /\ UNCHANGED <<cooldownFrom, cooldownPrev>>

\* A caller invokes RecordTrade(pnl).
RecordTradeCall(t, pnl) ==
    /\ call[t].pc = "idle"
    /\ risk.dailyPnL + SumPending(RiskThreads) + pnl \in -MaxAbsPnL..MaxAbsPnL
    /\ call' = [call EXCEPT ![t] = [IdleCall EXCEPT !.op = "RecordTrade", !.arg = pnl, !.pc = "lock"]]
    /\ UNCHANGED <<risk, mu, now, histVars, botVars>>

\* A caller invokes Halt(reason), Resume() or ResetDaily().
SwitchCall(t, op, reason) ==
    /\ call[t].pc = "idle"
    /\ call' = [call EXCEPT ![t] = [IdleCall EXCEPT !.op = op, !.reason = reason, !.pc = "lock"]]
    /\ UNCHANGED <<risk, mu, now, histVars, botVars>>

\* A caller invokes CanTrade().
CanTradeCall(t) ==
    /\ call[t].pc = "idle"
    /\ call' = [call EXCEPT ![t] = [IdleCall EXCEPT !.op = "CanTrade", !.pc = "rlock"]]
    /\ UNCHANGED <<risk, mu, now, histVars, botVars>>

\* c.mu.Lock() of RecordTrade, Halt, Resume, ResetDaily.
Lock(t) ==
    /\ call[t].pc = "lock"
    /\ CanLock(mu)
    /\ mu' = [mu EXCEPT !.w = t]
    /\ call' = [call EXCEPT ![t].pc = IF call[t].op = "RecordTrade" THEN "load" ELSE "body"]
    /\ UNCHANGED <<risk, now, histVars, botVars>>

\* c.dailyPnL += pnl, first half: load the field.
RecordTradeLoad(t) ==
    /\ call[t].op = "RecordTrade" /\ call[t].pc = "load"
    /\ call' = [call EXCEPT ![t].tmp = risk.dailyPnL, ![t].pc = "store"]
    /\ UNCHANGED <<risk, mu, now, histVars, botVars>>

\* c.dailyPnL += pnl, second half, and the rest of RecordTrade's body.
RecordTradeBody(t) ==
    /\ call[t].op = "RecordTrade" /\ call[t].pc = "store"
    /\ risk' = RecordTradeStore(risk, call[t].tmp, call[t].arg, now)
    /\ Recorded(call[t].arg)
    /\ call' = [call EXCEPT ![t].pc = "unlock"]
    /\ UNCHANGED <<mu, now, haltActive, botVars>>

HaltBody(t) ==
    /\ call[t].op = "Halt" /\ call[t].pc = "body"
    /\ risk' = HaltOf(risk, call[t].reason)
    /\ haltActive' = TRUE
    /\ call' = [call EXCEPT ![t].pc = "unlock"]
    /\ UNCHANGED <<mu, now, ledger, streak, cooldownFrom, cooldownPrev, botVars>>

ResumeBody(t) ==
    /\ call[t].op = "Resume" /\ call[t].pc = "body"
    /\ risk' = ResumeOf(risk)
    /\ haltActive' = FALSE
    /\ streak' = 0
    /\ call' = [call EXCEPT ![t].pc = "unlock"]
    /\ UNCHANGED <<mu, now, ledger, cooldownFrom, cooldownPrev, botVars>>

ResetDailyBody(t) ==
    /\ call[t].op = "ResetDaily" /\ call[t].pc = "body"
    /\ risk' = ResetDailyOf(risk)
    /\ ledger' = 0
    /\ call' = [call EXCEPT ![t].pc = "unlock"]
    /\ UNCHANGED <<mu, now, haltActive, streak, cooldownFrom, cooldownPrev, botVars>>

\* The deferred c.mu.Unlock(), and the return.
Unlock(t) ==
    /\ call[t].pc = "unlock"
    /\ mu' = [mu EXCEPT !.w = NONE]
    /\ call' = [call EXCEPT ![t] = IdleCall]
    /\ UNCHANGED <<risk, now, histVars, botVars>>

\* c.mu.RLock() of CanTrade.
RLock(t) ==
    /\ call[t].pc = "rlock"
    /\ CanRLock(mu)
    /\ mu' = [mu EXCEPT !.r = @ \cup {t}]
    /\ call' = [call EXCEPT ![t].pc = "body"]
    /\ UNCHANGED <<risk, now, histVars, botVars>>

\* Body of CanTrade: the decision, the clock and the dailyPnL it was taken on.
CanTradeBody(t) ==
    /\ call[t].op = "CanTrade" /\ call[t].pc = "body"
    /\ call' = [call EXCEPT ![t].ret = CanTradeOf(risk, now),
                            ![t].tmp = risk.dailyPnL,
                            ![t].at = now,
                            ![t].pc = "runlock"]
    /\ UNCHANGED <<risk, mu, now, histVars, botVars>>

\* The deferred c.mu.RUnlock(), and the return.
RUnlock(t) ==
    /\ call[t].pc = "runlock"
    /\ mu' = [mu EXCEPT !.r = @ \ {t}]
    /\ call' = [call EXCEPT ![t] = IdleCall]
    /\ UNCHANGED <<risk, now, histVars, botVars>>

\* The clock moves on; it never goes back.
Advance ==
    /\ now < MaxTime
    /\ now' = now + 1
    /\ UNCHANGED <<risk, mu, call, histVars, botVars>>

\* ------------------------------------------- entities and strategy signals

\* entity.Side
SideBuy == "buy"
SideSell == "sell"
\* entity.OrderStatus of a completed order, entity.OrderType of every order sent
OrderStatusFilled == "filled"
OrderTypeLimit == "limit"

\* config.Strategy.Symbol, one of the symbols the strategy supports.
Symbol == "BTC"

\* Mid prices of the allMids feed; bid, ask and last of a ticker are all the mid.
Prices == {1000, 1005}

\* service.Signal
Signal(side, price, qty, reason) ==
    [symbol |-> Symbol, side |-> side, price |-> price, qty |-> qty, reason |-> reason]

\* entity.Order as executeOrder builds it from a signal.
OrderOf(sig) ==
    [symbol |-> sig.symbol, side |-> sig.side, type |-> OrderTypeLimit,
     price |-> sig.price, qty |-> sig.qty, status |-> "", filledQty |-> 0]

\* Mutant of FilledOf: the status is set, the filled quantity is not.
FilledOf_NoQty(order) == [order EXCEPT !.status = OrderStatusFilled]

\* The simulated fill of dry-run mode.
FilledOf(order) == [order EXCEPT !.status = OrderStatusFilled, !.filledQty = order.qty]

\* ------------------------------------------------ MeanReversionStrategy

\* Strategy configuration after Init: bb_period 2 ticks, take_profit_pct 0.004
\* and stop_loss_pct 0.0025 in ten-thousandths, max_hold_time 2 minutes.
BBPeriod == 2
TakeProfitPct == 40
StopLossPct == 25
MaxHoldTime == 2
PctScale == 10000

\* What RSI and the Bollinger bands say of the price history: long entry,
\* short entry, or neither.  The history is kept by its length only, so the
\* verdict is an input of OnTick.
Verdicts == {"long", "short", "none"}

\* NewMeanReversionStrategy: no history, no position; entryTime -1 is the zero time.
NewMeanReversionStrategy ==
    [hasPosition |-> FALSE, entryPrice |-> 0, entryTime |-> -1, entrySide |-> "", histLen |-> 0]

\* Init: the configuration is parsed and the price history emptied.
InitOf(s) == [s EXCEPT !.histLen = 0]

\* Stop
StopOf(s) == [s EXCEPT !.histLen = 0, !.hasPosition = FALSE]

\* updatePriceHistory, by length; lengths from BBPeriod on are alike to the strategy.
UpdatePriceHistory(s) == [s EXCEPT !.histLen = IF @ < BBPeriod THEN @ + 1 ELSE @]

\* checkExitConditions, the reason of the exit: take profit, stop loss, then
\* timeout; NONE when the position is kept.
ExitReason(s, price, t) ==
    LET tpLong == price * PctScale >= s.entryPrice * (PctScale + TakeProfitPct)
        slLong == price * PctScale <= s.entryPrice * (PctScale - StopLossPct)
        tpShort == price * PctScale <= s.entryPrice * (PctScale - TakeProfitPct)
        slShort == price * PctScale >= s.entryPrice * (PctScale + StopLossPct)
        long == s.entrySide = SideBuy
        timeout == s.entryTime < 0 \/ t - s.entryTime > MaxHoldTime
    IN IF (long /\ tpLong) \/ (~long /\ tpShort) THEN "Take profit"
       ELSE IF (long /\ slLong) \/ (~long /\ slShort) THEN "Stop loss"
       ELSE IF timeout THEN "Timeout exit"
       ELSE NONE

ShouldExit(s, price, t) == ExitReason(s, price, t) # NONE

CheckExitConditions(s, price, qty, t) ==
    IF ShouldExit(s, price, t)
    THEN <<Signal(IF s.entrySide = SideSell THEN SideBuy ELSE SideSell, price, qty,
                  ExitReason(s, price, t))>>
    ELSE <<>>

\* checkEntryConditions
CheckEntryConditions(s, price, qty, verdict) ==
    IF s.histLen < BBPeriod THEN <<>>
    ELSE IF verdict = "long" THEN <<Signal(SideBuy, price, qty, "Long entry")>>
    ELSE IF verdict = "short" THEN <<Signal(SideSell, price, qty, "Short entry")>>
    ELSE <<>>

\* OnTick: the strategy after the tick and the signals it returns.
OnTickOf(s, price, qty, verdict, t) ==
    LET s1 == UpdatePriceHistory(s) IN
    [strat |-> s1,
     signals |-> IF s1.hasPosition
                 THEN CheckExitConditions(s1, price, qty, t)
                 ELSE CheckEntryConditions(s1, price, qty, verdict)]

\* Mutant of OnOrderUpdateOf: any filled order received while holding exits.
OnOrderUpdateOf_AnySideExits(s, order, t) ==
    IF order.status # OrderStatusFilled THEN s
    ELSE IF s.hasPosition
    THEN [s EXCEPT !.hasPosition = FALSE, !.entryPrice = 0, !.entryTime = -1]
    ELSE [s EXCEPT !.hasPosition = TRUE, !.entryPrice = order.price,
                   !.entryTime = t, !.entrySide = order.side]

\* MeanReversionStrategy.OnOrderUpdate
OnOrderUpdateOf(s, order, t) ==
    IF order.status # OrderStatusFilled THEN s
    ELSE IF s.hasPosition
    THEN IF order.side # s.entrySide
         THEN [s EXCEPT !.hasPosition = FALSE, !.entryPrice = 0, !.entryTime = -1]
         ELSE s
    ELSE [s EXCEPT !.hasPosition = TRUE, !.entryPrice = order.price,
                   !.entryTime = t, !.entrySide = order.side]

\* ------------------------------------------------------- Bot (dispatcher)

\* Mutant of StartAccepts: Start without the test of b.running.
StartAccepts_Always(r) == TRUE

\* Start's test of b.running under b.mu: the call goes ahead when the
\* dispatcher is not running.
StartAccepts(r) == ~r

\* A lifecycle call in progress; cur: no Stop has been accepted since this
\* Start was.
IdleLife == [op |-> NONE, pc |-> "idle", cur |-> FALSE]
IdleTick == [pc |-> "idle", price |-> 0, hleft |-> 0, sigs |-> <<>>]

\* What the dispatcher has called: Start calls accepted in all (starts); since
\* the last accepted Stop, the Start calls accepted (live) and the strategy
\* inits, connects and subscriptions of these calls; signals approved by both risk checks,
\* PlaceOrder calls and their failures, OnOrderUpdate calls and the order of the
\* latest, CancelAllOrders calls; whether a Start call has been rejected since
\* the last accepted Stop (rejected).
NewObs ==
    [starts |-> 0, live |-> 0, inits |-> 0, connects |-> 0, subs |-> 0,
     approved |-> 0, placed |-> 0, failed |-> 0, updates |-> 0, cancels |-> 0,
     lastUpdate |-> NONE, rejected |-> FALSE]

\* Start, up to the release of b.mu: rejected when already running, else running is set.
StartEnter(c) ==
    /\ life[c].pc = "idle"
    /\ IF StartAccepts(running)
       THEN /\ ~running => obs.starts < MaxStarts
            /\ running' = TRUE
            /\ life' = [life EXCEPT ![c] = [op |-> "Start", pc |-> "init", cur |-> TRUE]]
            /\ obs' = [obs EXCEPT !.starts = @ + 1, !.live = @ + 1]
       ELSE /\ obs' = [obs EXCEPT !.rejected = TRUE]
            /\ UNCHANGED <<running, life>>
    /\ UNCHANGED <<risk, mu, now, call, histVars, cfg, auxVars, position, orders, strat, exch, tick>>

\* b.strategy.Init; the mean-reversion Init returns no error.
StartInit(c) ==
    /\ life[c].op = "Start" /\ life[c].pc = "init"
    /\ strat' = InitOf(strat)
    /\ life' = [life EXCEPT ![c].pc = "connect"]
    /\ obs' = [obs EXCEPT !.inits = IF life[c].cur THEN @ + 1 ELSE @]
    /\ UNCHANGED <<risk, mu, now, call, histVars, cfg, auxVars, running, position, orders, exch, tick>>

\* b.exchange.Connect: the dial fails and Start returns the error, or the
\* socket is up and the read loop started.
StartConnect(c) ==
    /\ life[c].op = "Start" /\ life[c].pc = "connect"
    /\ \E ok \in BOOLEAN :
        IF ok
        THEN /\ exch' = [exch EXCEPT !.wsConnected = TRUE]
             /\ life' = [life EXCEPT ![c].pc = "subscribe"]
             /\ obs' = [obs EXCEPT !.connects = IF life[c].cur THEN @ + 1 ELSE @]
        ELSE /\ life' = [life EXCEPT ![c] = IdleLife]
             /\ obs' = [obs EXCEPT !.connects = IF life[c].cur THEN @ + 1 ELSE @]
             /\ UNCHANGED exch
    /\ UNCHANGED <<risk, mu, now, call, histVars, cfg, auxVars, running, position, orders, strat, tick>>

\* b.exchange.SubscribeTicker(b.onTicker): the handler is appended under
\* handlerMu (which the read loop holds while it delivers a tick), then the
\* subscription is sent; Start returns, with the error when the send failed.
StartSubscribe(c) ==
    /\ life[c].op = "Start" /\ life[c].pc = "subscribe"
    /\ tick.pc = "idle"
    /\ exch' = [exch EXCEPT !.tickerHandlers = @ + 1]
    /\ obs' = [obs EXCEPT !.subs = IF life[c].cur THEN @ + 1 ELSE @]
    /\ life' = [life EXCEPT ![c] = IdleLife]
    /\ UNCHANGED <<risk, mu, now, call, histVars, cfg, auxVars, running, position, orders, strat, tick>>

\* Stop, up to the release of b.mu: nothing to do when not running, else running is cleared.
StopEnter(c) ==
    /\ life[c].pc = "idle"
    /\ IF ~running
       THEN UNCHANGED <<running, life, obs>>
       ELSE /\ running' = FALSE
            /\ life' = [x \in LifeThreads |->
                           IF x = c THEN [op |-> "Stop", pc |-> "strategy", cur |-> FALSE]
                           ELSE [life[x] EXCEPT !.cur = FALSE]]
            /\ obs' = [obs EXCEPT !.live = 0, !.inits = 0, !.connects = 0, !.subs = 0,
                                  !.rejected = FALSE]
    /\ UNCHANGED <<risk, mu, now, call, histVars, cfg, auxVars, position, orders, strat, exch, tick>>

\* b.strategy.Stop; an error is logged and Stop goes on.
StopStrategy(c) ==
    /\ life[c].op = "Stop" /\ life[c].pc = "strategy"
    /\ strat' = StopOf(strat)
    /\ life' = [life EXCEPT ![c].pc = IF cfg.dryRun THEN "disconnect" ELSE "cancel"]
    /\ UNCHANGED <<risk, mu, now, call, histVars, cfg, auxVars, running, position, orders, exch, tick, obs>>

\* b.exchange.CancelAllOrders, live mode only; an error is logged and Stop
\* goes on.
StopCancel(c) ==
    /\ life[c].op = "Stop" /\ life[c].pc = "cancel"
    /\ obs' = [obs EXCEPT !.cancels = @ + 1]
    /\ life' = [life EXCEPT ![c].pc = "disconnect"]
    /\ UNCHANGED <<risk, mu, now, call, histVars, cfg, auxVars, running, position, orders, strat, exch, tick>>

\* b.exchange.Disconnect, and the return of Stop.
StopDisconnect(c) ==
    /\ life[c].op = "Stop" /\ life[c].pc = "disconnect"
    /\ exch' = [exch EXCEPT !.wsConnected = FALSE]
    /\ life' = [life EXCEPT ![c] = IdleLife]
    /\ UNCHANGED <<risk, mu, now, call, histVars, cfg, auxVars, running, position, orders, strat, tick, obs>>

\* --------------------------------------------------- the tick pipeline

\* The handler has returned: the read loop calls the next registered handler
\* with the same ticker, or is done with the message.
AfterHandler(tk) ==
    IF tk.hleft > 1
    THEN [tk EXCEPT !.pc = "onTicker", !.hleft = @ - 1, !.sigs = <<>>]
    ELSE IdleTick

\* processSignal has returned: onTicker's loop goes to the next signal.
AfterSignal(tk) ==
    IF Len(tk.sigs) > 1
    THEN [tk EXCEPT !.pc = "canTrade", !.sigs = Tail(@)]
    ELSE AfterHandler(tk)

\* wsReadLoop / handleAllMids: a mid price arrives on the open socket and is
\* handed, as a ticker, to each registered handler in turn.
TickRead ==
    /\ tick.pc = "idle"
    /\ exch.wsConnected
    /\ exch.tickerHandlers > 0
    /\ obs.approved < MaxEmit
    /\ \E p \in Prices :
        tick' = [pc |-> "onTicker", price |-> p, hleft |-> exch.tickerHandlers, sigs |-> <<>>]
    /\ UNCHANGED <<risk, mu, now, call, histVars, cfg, auxVars, running, position, orders, strat, exch, life, obs>>

\* onTicker under b.mu.RLock: return when not running, else snapshot position and orders.
OnTickerEnter ==
    /\ tick.pc = "onTicker"
    /\ tick' = IF running THEN [tick EXCEPT !.pc = "onTick"] ELSE AfterHandler(tick)
    /\ UNCHANGED <<risk, mu, now, call, histVars, cfg, auxVars, running, position, orders, strat, exch, life, obs>>

\* b.strategy.OnTick, and the return of onTicker when there is no signal.
OnTickerStrategy ==
    /\ tick.pc = "onTick"
    /\ \E v \in Verdicts :
        LET res == OnTickOf(strat, tick.price, cfg.positionSize, v, now) IN
        /\ strat' = res.strat
        /\ tick' = IF res.signals = <<>> THEN AfterHandler(tick)
                   ELSE [tick EXCEPT !.pc = "canTrade", !.sigs = res.signals]
    /\ UNCHANGED <<risk, mu, now, call, histVars, cfg, auxVars, running, position, orders, exch, life, obs>>

\* processSignal: b.risk.CanTrade(); the signal is dropped on denial.
ProcessCanTrade ==
    /\ tick.pc = "canTrade"
    /\ tick' = IF CanTradeOf(risk, now).Allowed THEN [tick EXCEPT !.pc = "checkSize"]
               ELSE AfterSignal(tick)
    /\ UNCHANGED <<risk, mu, now, call, histVars, cfg, auxVars, running, position, orders, strat, exch, life, obs>>

\* processSignal: b.risk.CheckPositionSize(sig.Quantity); the signal is dropped
\* on denial, else executeOrder is entered.
ProcessCheckSize ==
    /\ tick.pc = "checkSize"
    /\ IF CheckPositionSize(Head(tick.sigs).qty).Allowed
       THEN /\ tick' = [tick EXCEPT !.pc = "execute"]
            /\ obs' = [obs EXCEPT !.approved = @ + 1]
       ELSE /\ tick' = AfterSignal(tick)
            /\ UNCHANGED obs
    /\ UNCHANGED <<risk, mu, now, call, histVars, cfg, auxVars, running, position, orders, strat, exch, life>>

\* executeOrder in dry-run mode: the order is marked filled and handed to the strategy.
ExecuteDryRun ==
    /\ tick.pc = "execute"
    /\ cfg.dryRun
    /\ LET order == FilledOf(OrderOf(Head(tick.sigs))) IN
        /\ strat' = OnOrderUpdateOf(strat, order, now)
        /\ obs' = [obs EXCEPT !.updates = @ + 1, !.lastUpdate = order]
    /\ tick' = AfterSignal(tick)
    /\ UNCHANGED <<risk, mu, now, call, histVars, cfg, auxVars, running, position, orders, exch, life>>

\* executeOrder in live mode: b.exchange.PlaceOrder, which returns the placed
\* order or an error.
ExecutePlaceOrder ==
    /\ tick.pc = "execute"
    /\ ~cfg.dryRun
    /\ \E ok \in BOOLEAN :
        IF ok
        THEN /\ tick' = AfterSignal(tick)
             /\ obs' = [obs EXCEPT !.placed = @ + 1]
        ELSE /\ tick' = [tick EXCEPT !.pc = "record"]
             /\ obs' = [obs EXCEPT !.placed = @ + 1, !.failed = @ + 1]
    /\ UNCHANGED <<risk, mu, now, call, histVars, cfg, auxVars, running, position, orders, strat, exch, life>>

\* The failure sentinel, -0.001.
FailureSentinel == -1

\* executeOrder after a failed PlaceOrder: b.risk.RecordTrade(-0.001).
ExecuteRecordFailure ==
    /\ tick.pc = "record"
    /\ risk' = RecordTradeOf(risk, FailureSentinel, now)
    /\ Recorded(FailureSentinel)
    /\ tick' = AfterSignal(tick)
    /\ UNCHANGED <<mu, now, call, haltActive, cfg, auxVars, running, position, orders, strat, exch, life, obs>>

\* ------------------------------------------------ the operator, the clock

\* Halt(reason) called on the risk gate while the dispatcher runs.
OperatorHalt ==
    /\ \E reason \in HaltReasons : risk' = HaltOf(risk, reason)
    /\ haltActive' = TRUE
    /\ UNCHANGED <<mu, now, call, ledger, streak, cooldownFrom, cooldownPrev, botVars>>

\* Resume() called on the risk gate while the dispatcher runs.
OperatorResume ==
    /\ risk' = ResumeOf(risk)
    /\ haltActive' = FALSE
    /\ streak' = 0
    /\ UNCHANGED <<mu, now, call, ledger, cooldownFrom, cooldownPrev, botVars>>

\* A cooldown's length of time passes.
Elapse ==
    /\ now + CooldownDuration <= MaxTime
    /\ now' = now + CooldownDuration
    /\ UNCHANGED <<risk, mu, call, histVars, botVars>>

\* ----------------------------------------------------- specifications

\* The state after newBot, for the mode and the position size of the configuration.
InitBot(dry, size) ==
    /\ cfg = [dryRun |-> dry, positionSize |-> size]
    /\ running = FALSE
    /\ position = NONE
    /\ orders = <<>>
    /\ strat = NewMeanReversionStrategy
    /\ exch = [wsConnected |-> FALSE, tickerHandlers |-> 0]
    /\ life = [c \in LifeThreads |-> IdleLife]
    /\ tick = IdleTick
    /\ obs = NewObs

\* The state after NewChecker.
InitChecker ==
    /\ risk = NewChecker
    /\ mu = [w |-> NONE, r |-> {}]
    /\ now = 0
    /\ call = [t \in RiskThreads |-> IdleCall]
    /\ ledger = 0
    /\ haltActive = FALSE
    /\ streak = 0
    /\ cooldownFrom = -1
    /\ cooldownPrev = 0

\* No signal-driven strategy, no strategy call made, no read loops, no provider.
InitAux ==
    /\ ai = NONE
    /\ lastCall = NONE
    /\ loops = <<>>
    /\ smu = NONE
    /\ prov = NONE
    /\ gor = NONE

InitRisk == InitChecker /\ InitBot(TRUE, MaxPositionSize) /\ InitAux

\* The steps of the callers of the risk gate: W call the operations that
\* write (RecordTrade, Halt, Resume, ResetDaily), R call CanTrade.
RiskCalls(W, R) ==
    \/ \E t \in W, pnl \in PnLValues : RecordTradeCall(t, pnl)
    \/ \E t \in W, reason \in HaltReasons : SwitchCall(t, "Halt", reason)
    \/ \E t \in W : SwitchCall(t, "Resume", "")
    \/ \E t \in W : SwitchCall(t, "ResetDaily", "")
    \/ \E t \in R : CanTradeCall(t)
    \/ \E t \in W : Lock(t)
    \/ \E t \in W : RecordTradeLoad(t)
    \/ \E t \in W : RecordTradeBody(t)
    \/ \E t \in W : HaltBody(t)
    \/ \E t \in W : ResumeBody(t)
    \/ \E t \in W : ResetDailyBody(t)
    \/ \E t \in W : Unlock(t)
    \/ \E t \in R : RLock(t)
    \/ \E t \in R : CanTradeBody(t)
    \/ \E t \in R : RUnlock(t)

\* One caller at a time, over the whole range of the clock.
NextRisk == RiskCalls({"t1"}, {"t1"}) \/ Advance

SpecRisk == InitRisk /\ [][NextRisk]_vars

\* Concurrent callers; the clock stands still while they interleave.
NextRiskConc == RiskCalls(RiskThreads, RiskThreads)

SpecRiskConc == InitRisk /\ [][NextRiskConc]_vars

\* The dispatcher in either mode, with a position size within or beyond the
\* risk limit: lifecycle callers, the read loop, the operator and the clock.
Init ==
    /\ InitChecker
    /\ \E dry \in BOOLEAN, size \in {MaxPositionSize, 2 * MaxPositionSize} : InitBot(dry, size)
    /\ InitAux

Next ==
    \/ \E c \in LifeThreads : StartEnter(c)
    \/ \E c \in LifeThreads : StartInit(c)
    \/ \E c \in LifeThreads : StartConnect(c)
    \/ \E c \in LifeThreads : StartSubscribe(c)
    \/ \E c \in LifeThreads : StopEnter(c)
    \/ \E c \in LifeThreads : StopStrategy(c)
    \/ \E c \in LifeThreads : StopCancel(c)
    \/ \E c \in LifeThreads : StopDisconnect(c)
    \/ TickRead
    \/ OnTickerEnter
    \/ OnTickerStrategy
    \/ ProcessCanTrade
    \/ ProcessCheckSize
    \/ ExecuteDryRun
    \/ ExecutePlaceOrder
    \/ ExecuteRecordFailure
    \/ OperatorHalt
    \/ OperatorResume
    \/ Elapse

Spec == Init /\ [][Next]_vars

\* ------------------------------------------------------------- properties

\* A CanTrade call of the caller t has decided and not yet returned.
Decided(t) == call[t].op = "CanTrade" /\ call[t].pc = "runlock"

\* The read loop takes a step.
TickStep == tick' # tick

\* An order is emitted: PlaceOrder is called, or a simulated fill is handed to the strategy.
Emission == obs'.placed # obs.placed \/ obs'.updates # obs.updates

\* C1: a signal leads to an order emission only if CanTrade and
\* CheckPositionSize, in this order, both allowed it: the emission comes from
\* executeOrder, executeOrder is entered only after CheckPositionSize passed a
\* quantity within MaxPositionSize, which is asked only after CanTrade found
\* the gate not halted, not in cooldown and within the daily loss limit; a
\* signal that meets a halted gate, a cooldown, an exceeded daily loss or too
\* large a quantity at its check is dropped and nothing is emitted for it.
C1_EmissionOnlyWhenApproved ==
    [][ /\ Emission => tick.pc = "execute"
        /\ (tick'.pc = "execute" /\ TickStep) =>
               /\ tick.pc = "checkSize"
               /\ tick'.sigs = tick.sigs
               /\ Head(tick.sigs).qty <= MaxPositionSize
        /\ (tick'.pc = "checkSize" /\ TickStep) =>
               /\ tick.pc = "canTrade"
               /\ tick'.sigs = tick.sigs
               /\ ~risk.halted
               /\ ~(now < risk.cooldownUntil)
               /\ ~(risk.dailyPnL < -MaxDailyLoss)
        /\ (/\ tick.pc = "canTrade"
            /\ TickStep
            /\ risk.halted \/ now < risk.cooldownUntil \/ risk.dailyPnL < -MaxDailyLoss) =>
               tick' = AfterSignal(tick) /\ ~Emission
        /\ (tick.pc = "checkSize" /\ TickStep /\ Head(tick.sigs).qty > MaxPositionSize) =>
               tick' = AfterSignal(tick) /\ ~Emission
      ]_vars

\* C1 witness: an order has been emitted and a further signal stands at the
\* gate while the gate is in cooldown.
C1_Witness ==
    /\ obs.placed + obs.updates > 0
    /\ tick.pc = "canTrade"
    /\ now < risk.cooldownUntil

\* C2: when Halt runs concurrently with a tick being processed, no order is
\* emitted once Halt has returned (until a Resume): no emission step is taken
\* in a state in which the halt is in force.
C2_NoEmissionAfterHalt ==
    [][ haltActive => ~Emission ]_vars

\* C3: RecordTrade with pnl < 0 adds one to consecutive_loss; on reaching
\* MaxConsecutiveLoss it sets cooldown_until to the clock plus CooldownDuration
\* and resets the counter; pnl >= 0 resets the counter and starts no cooldown;
\* CanTrade is denied as long as the clock is before cooldown_until, and is
\* denied for cooldown only then.
C3_CooldownAccounting ==
    /\ risk.consecutiveLoss = streak
    /\ risk.consecutiveLoss < MaxConsecutiveLoss
    /\ risk.cooldownUntil = (IF cooldownFrom = -1 THEN 0 ELSE cooldownFrom + CooldownDuration)
    /\ \A t \in RiskThreads :
        Decided(t) =>
            /\ call[t].at < risk.cooldownUntil => ~call[t].ret.Allowed
            /\ call[t].ret.Reason.msg = "in cooldown until " =>
                   call[t].at < risk.cooldownUntil /\ ~risk.halted

\* C3 witness: a cooldown has started, the counter is back at zero, and a
\* CanTrade asked before cooldown_until has been denied for cooldown.
C3_Witness ==
    /\ cooldownFrom >= 0
    /\ risk.consecutiveLoss = 0
    /\ \E t \in RiskThreads : Decided(t) /\ call[t].ret = Denied(CooldownReason(risk))

\* C4: while a halt is in force (Halt called, no Resume since) the halted flag
\* stays set, whatever RecordTrade and ResetDaily do to daily_pnl and the
\* cooldown, and every CanTrade is denied with the reason of the halt.
C4_HaltDenies ==
    /\ haltActive => risk.halted
    /\ \A t \in RiskThreads :
        (Decided(t) /\ haltActive) => call[t].ret = Denied(HaltedReason(risk))

\* C4 witness: CanTrade is denied under a halt although the daily loss is
\* within its limit (after a loss was recorded) and no cooldown is pending.
C4_Witness ==
    /\ haltActive
    /\ ledger < 0
    /\ risk.dailyPnL >= -MaxDailyLoss
    /\ now >= risk.cooldownUntil
    /\ \E t \in RiskThreads : Decided(t) /\ ~call[t].ret.Allowed

\* C5: daily_pnl is the sum of the amounts recorded since the last ResetDaily;
\* CanTrade is denied whenever it is below -MaxDailyLoss, is allowed when
\* it is at or above -MaxDailyLoss and neither halt nor cooldown holds, and is
\* denied for daily loss only when it is below -MaxDailyLoss (so not after a
\* ResetDaily with nothing recorded since).
C5_DailyLossLimit ==
    /\ risk.dailyPnL = ledger
    /\ \A t \in RiskThreads :
        Decided(t) =>
            /\ ledger < -MaxDailyLoss => ~call[t].ret.Allowed
            /\ (~risk.halted /\ call[t].at >= risk.cooldownUntil /\ ledger >= -MaxDailyLoss)
                   => call[t].ret.Allowed
            /\ call[t].ret.Reason = DailyLossReason => ledger < -MaxDailyLoss

\* C5 witness: CanTrade has been denied for the daily loss.
C5_Witness ==
    \E t \in RiskThreads : Decided(t) /\ call[t].ret = Denied(DailyLossReason)

\* C6: with RecordTrade calls running concurrently, daily_pnl is the previous
\* value plus every amount stored so far, in every interleaving (no update is
\* lost), and a concurrent CanTrade decides on such a sum of whole amounts.
C6_NoLostUpdate ==
    /\ risk.dailyPnL = ledger
    /\ \A t \in RiskThreads : Decided(t) => call[t].tmp = ledger

\* C6 witness: one RecordTrade has stored its amount, a second one and a
\* CanTrade are waiting for the lock.
C6_Witness ==
    \E t1, t2, t3 \in RiskThreads :
        /\ call[t1].op = "RecordTrade" /\ call[t1].pc = "unlock" /\ call[t1].arg # 0
        /\ call[t2].op = "RecordTrade" /\ call[t2].pc = "lock" /\ call[t2].arg # 0
        /\ call[t3].op = "CanTrade" /\ call[t3].pc = "rlock"

\* C7: with a clock that never goes back, cooldown_until never moves to an
\* earlier instant, over any sequence of RecordTrade, Halt, Resume and ResetDaily.
C7_CooldownMonotone ==
    [][ risk'.cooldownUntil >= risk.cooldownUntil ]_vars

\* C7 witness: a cooldown has started while an earlier one was still pending,
\* and cooldown_until has moved later.
C7_Witness ==
    /\ cooldownFrom >= 0
    /\ cooldownPrev > cooldownFrom
    /\ risk.cooldownUntil > cooldownPrev

\* C8: in dry-run mode PlaceOrder and CancelAllOrders are never called, over
\* any sequence of starts, ticks, signals and stops, and each signal approved
\* by the risk checks is answered by exactly one OnOrderUpdate of the strategy,
\* with an order of status filled, filled_qty = quantity, and the symbol, side,
\* price and quantity of the signal.
C8_DryRunSimulates ==
    [][ cfg.dryRun =>
          /\ obs'.placed = 0
          /\ obs'.cancels = 0
          /\ obs'.updates = obs'.approved - (IF tick'.pc = "execute" THEN 1 ELSE 0)
          /\ (tick.pc = "execute" /\ TickStep) =>
                LET sig == Head(tick.sigs) IN
                /\ obs'.updates = obs.updates + 1
                /\ obs'.lastUpdate.status = OrderStatusFilled
                /\ obs'.lastUpdate.filledQty = sig.qty
                /\ obs'.lastUpdate.qty = sig.qty
                /\ obs'.lastUpdate.symbol = sig.symbol
                /\ obs'.lastUpdate.side = sig.side
                /\ obs'.lastUpdate.price = sig.price
      ]_vars

\* C8 witness: a dry-run dispatcher has been stopped and has disconnected after
\* two approved signals were answered by simulated fills.
C8_Witness ==
    /\ cfg.dryRun
    /\ obs.updates >= 2
    /\ ~running
    /\ ~exch.wsConnected
    /\ \A c \in LifeThreads : life[c].pc = "idle"

\* C9 as stated: in live mode every failed PlaceOrder is followed by exactly one
\* RecordTrade(-0.001) and by no OnOrderUpdate, a successful one records
\* nothing; the record of the MaxConsecutiveLoss-th placement failure in a row
\* (taken here where every placement so far has failed) puts the gate into
\* cooldown, and a signal that comes to the gate in cooldown is denied before
\* the exchange is called.
C9_AsStated ==
    [][ ~cfg.dryRun =>
          /\ obs'.updates = 0
          /\ -ledger' = obs'.failed - (IF tick'.pc = "record" THEN 1 ELSE 0)
          /\ (tick.pc = "record" /\ TickStep) => ledger' = ledger + FailureSentinel
          /\ (/\ tick.pc = "record"
              /\ TickStep
              /\ obs.failed = MaxConsecutiveLoss
              /\ obs.placed = obs.failed) =>
                 now < risk'.cooldownUntil
          /\ (tick.pc = "canTrade" /\ TickStep /\ now < risk.cooldownUntil) =>
                 tick' = AfterSignal(tick) /\ ~Emission
      ]_vars

\* C9, amended: in live mode every failed PlaceOrder is followed by exactly one
\* RecordTrade(-0.001) and by no OnOrderUpdate, a successful one records
\* nothing; the MaxConsecutiveLoss-th placement failure recorded since the
\* latest cooldown start or Resume (placements that succeed in between do not
\* restart the count) puts the gate into cooldown until the clock plus
\* CooldownDuration, and a signal that comes to the gate before cooldown_until
\* is denied before the exchange is called.
C9_FailureAccounting ==
    [][ ~cfg.dryRun =>
          /\ obs'.updates = 0
          /\ -ledger' = obs'.failed - (IF tick'.pc = "record" THEN 1 ELSE 0)
          /\ (tick.pc = "record" /\ TickStep) => ledger' = ledger + FailureSentinel
          /\ (tick.pc = "record" /\ TickStep /\ streak + 1 = MaxConsecutiveLoss) =>
                 risk'.cooldownUntil = now + CooldownDuration
          /\ (tick.pc = "record" /\ TickStep /\ streak + 1 < MaxConsecutiveLoss) =>
                 risk'.cooldownUntil = risk.cooldownUntil
          /\ (tick.pc = "canTrade" /\ TickStep /\ now < risk.cooldownUntil) =>
                 tick' = AfterSignal(tick) /\ ~Emission
      ]_vars

\* C9 witness: in live mode MaxConsecutiveLoss placement failures have been
\* recorded, the gate is in cooldown, and the next signal stands at the gate.
C9_Witness ==
    /\ ~cfg.dryRun
    /\ obs.failed >= MaxConsecutiveLoss
    /\ cooldownFrom >= 0
    /\ now < risk.cooldownUntil
    /\ tick.pc = "canTrade"

\* C10: of the Start calls made since the last accepted Stop, sequential or
\* concurrent, at most one is accepted (exactly one while the dispatcher is
\* running) and only that one initialises the strategy, connects and
\* subscribes, once each; every other call is rejected as already running and
\* changes neither the running flag, the position, the orders, the
\* subscriptions, nor the strategy or the calls in progress.
C10_StartOnce ==
    [][ /\ obs'.live <= 1
        /\ obs'.inits <= 1 /\ obs'.connects <= 1 /\ obs'.subs <= 1
        /\ running' => obs'.live = 1
        /\ (obs'.rejected /\ ~obs.rejected) =>
               /\ running
               /\ UNCHANGED <<running, position, orders, exch, strat, life, tick>>
      ]_vars

\* C10 witness: a Start call has been rejected while the accepted one was
\* still between strategy init and subscription.
C10_Witness ==
    /\ obs.rejected
    /\ running
    /\ \E c \in LifeThreads : life[c].op = "Start" /\ life[c].cur

\* ============================================== the signal-driven strategy

\* The 10-minute steps of the clock of the strategy specifications end at MaxStratTime.
MaxStratTime == 30
\* |totalPnL| of the signal-driven strategy stays within MaxStratPnL.
MaxStratPnL == 10

\* entity.SignalBias
SignalBiasBullish == "bullish"
SignalBiasBearish == "bearish"
SignalBiasNeutral == "neutral"

\* entity.MarketSignal, the fused signal: bias, strength and confidence in
\* hundredths; nil when the market state carries none.
MarketSignal(bias, strength, confidence) ==
    [nil |-> FALSE, bias |-> bias, strength |-> strength, confidence |-> confidence]
NoMarketSignal == [nil |-> TRUE, bias |-> "", strength |-> 0, confidence |-> 0]

\* entity.Position: Size is signed, negative for a short; nil when the market
\* state carries none.
Position(size, entryPrice) ==
    [nil |-> FALSE, side |-> IF size < 0 THEN SideSell ELSE SideBuy, size |-> size,
     entryPrice |-> entryPrice]
NoPosition == [nil |-> TRUE, side |-> "", size |-> 0, entryPrice |-> 0]

\* DefaultAISignalConfig: sizes in USD, strength and confidence thresholds in
\* hundredths, the percentages in ten-thousandths, the cooldown in minutes.
DefaultAISignalConfig ==
    [MaxPositionSize |-> 1000, PositionSizeStep |-> 100,
     MinSignalStrength |-> 30, MinConfidence |-> 40,
     TakeProfitPercent |-> 200, StopLossPercent |-> 100,
     TrailingStop |-> TRUE, TrailingPercent |-> 50,
     CooldownPeriod |-> 30]

\* NewAISignalStrategy; lastTradeTime -1 is the zero time.
NewAISignalStrategy ==
    [config |-> DefaultAISignalConfig, running |-> FALSE, entryPrice |-> 0,
     highestPrice |-> 0, lastSignal |-> NoMarketSignal, lastTradeTime |-> -1,
     totalPnL |-> 0, peakEquity |-> 0]

\* AISignalStrategy.Init with max_position_size in the configuration map.
AIInitOf(s, maxSize) ==
    [s EXCEPT !.config.MaxPositionSize = maxSize, !.running = TRUE]

\* AISignalStrategy.Stop
AIStopOf(s) == [s EXCEPT !.running = FALSE]

\* service.Signal of the signal-driven strategy; Quantity is num/den.
AISignal(side, price, num, den, reason) ==
    [symbol |-> Symbol, side |-> side, price |-> price,
     qty |-> [num |-> num, den |-> den], reason |-> reason]

\* Mutant of CalculatePositionSize: the size is not floored to whole steps.
CalculatePositionSize_NoFloor(s, sig) ==
    LET c == s.config
        size == (c.MaxPositionSize * sig.strength * sig.confidence) \div 10000
    IN IF size > c.MaxPositionSize THEN c.MaxPositionSize ELSE size

\* calculatePositionSize: MaxPositionSize * strength * confidence, floored to
\* whole steps and capped.
CalculatePositionSize(s, sig) ==
    LET c == s.config
        steps == (c.MaxPositionSize * sig.strength * sig.confidence)
                    \div (10000 * c.PositionSizeStep)
        size == steps * c.PositionSizeStep
    IN IF size > c.MaxPositionSize THEN c.MaxPositionSize ELSE size

\* evaluateEntry
EvaluateEntry(s, price) ==
    LET sig == s.lastSignal
        size == CalculatePositionSize(s, sig)
    IN IF sig.nil THEN <<>>
       ELSE IF sig.strength < s.config.MinSignalStrength THEN <<>>
       ELSE IF sig.confidence < s.config.MinConfidence THEN <<>>
       ELSE IF size <= 0 THEN <<>>
       ELSE IF sig.bias = SignalBiasBullish
            THEN <<AISignal(SideBuy, price, size, price, "LONG Entry")>>
       ELSE IF sig.bias = SignalBiasBearish
            THEN <<AISignal(SideSell, price, size, price, "SHORT Entry")>>
       ELSE <<>>

Abs(x) == IF x < 0 THEN -x ELSE x

\* Mutant of CreateExitSignal: the exit is on the side of the position.
CreateExitSignal_SameSide(pos, price, reason) ==
    AISignal(IF pos.size > 0 THEN SideBuy ELSE SideSell, price, Abs(pos.size), 1,
             "EXIT: " \o reason)

\* createExitSignal
CreateExitSignal(pos, price, reason) ==
    AISignal(IF pos.size > 0 THEN SideSell ELSE SideBuy, price, Abs(pos.size), 1,
             "EXIT: " \o reason)

\* managePosition, the running extremum: the highest price of a long, the
\* lowest of a short.
HighestPrice(s, pos, price) ==
    IF pos.size > 0 /\ price > s.highestPrice THEN price
    ELSE IF ~(pos.size > 0) /\ (s.highestPrice = 0 \/ price < s.highestPrice) THEN price
    ELSE s.highestPrice

\* managePosition, the exit conditions; pnlPercent and trailingPnL are
\* compared in ten-thousandths.
TakeProfitHit(s, pos, price) ==
    LET pnl == IF pos.size > 0 THEN price - pos.entryPrice ELSE pos.entryPrice - price
    IN pnl * 10000 >= s.config.TakeProfitPercent * pos.entryPrice

StopLossHit(s, pos, price) ==
    LET pnl == IF pos.size > 0 THEN price - pos.entryPrice ELSE pos.entryPrice - price
    IN pnl * 10000 <= -(s.config.StopLossPercent * pos.entryPrice)

TrailingStopHit(s, pos, price) ==
    LET high == HighestPrice(s, pos, price)
        trailing == IF pos.size > 0 THEN price - high ELSE high - price
    IN /\ s.config.TrailingStop
       /\ high > 0
       /\ trailing * 10000 <= -(s.config.TrailingPercent * high)

SignalReversalHit(s, pos) ==
    /\ ~s.lastSignal.nil
    /\ \/ pos.size > 0 /\ s.lastSignal.bias = SignalBiasBearish /\ s.lastSignal.strength > 50
       \/ ~(pos.size > 0) /\ s.lastSignal.bias = SignalBiasBullish /\ s.lastSignal.strength > 50

\* managePosition: the strategy with its extremum updated, and the exit signal if any.
ManagePosition(s, pos, price) ==
    LET s1 == [s EXCEPT !.highestPrice = HighestPrice(s, pos, price)] IN
    IF pos.nil \/ pos.size = 0 THEN [ai |-> s, signals |-> <<>>]
    ELSE [ai |-> s1,
          signals |->
            IF TakeProfitHit(s, pos, price)
            THEN <<CreateExitSignal(pos, price, "Take Profit")>>
            ELSE IF StopLossHit(s, pos, price)
            THEN <<CreateExitSignal(pos, price, "Stop Loss")>>
            ELSE IF TrailingStopHit(s, pos, price)
            THEN <<CreateExitSignal(pos, price, "Trailing Stop")>>
            ELSE IF SignalReversalHit(s, pos)
            THEN <<CreateExitSignal(pos, price, "Signal Reversal")>>
            ELSE <<>>]

\* Mutant of InCooldown: the gate closes after any fill, whatever totalPnL.
InCooldown_AnyPnL(s, t) ==
    s.lastTradeTime >= 0 /\ t - s.lastTradeTime < s.config.CooldownPeriod

\* OnTick's cooldown gate: time.Since(lastTradeTime) < CooldownPeriod && totalPnL < 0.
InCooldown(s, t) ==
    /\ s.lastTradeTime >= 0
    /\ t - s.lastTradeTime < s.config.CooldownPeriod
    /\ s.totalPnL < 0

\* AISignalStrategy.OnTick: the strategy after the tick and the signals it returns.
AIOnTickOf(s, pos, price, msig, t) ==
    LET s1 == IF msig.nil THEN s ELSE [s EXCEPT !.lastSignal = msig] IN
    IF ~s.running THEN [ai |-> s, signals |-> <<>>]
    ELSE IF InCooldown(s1, t) THEN [ai |-> s1, signals |-> <<>>]
    ELSE IF ~pos.nil /\ pos.size # 0 THEN ManagePosition(s1, pos, price)
    ELSE [ai |-> s1, signals |-> EvaluateEntry(s1, price)]

\* AISignalStrategy.OnOrderUpdate
AIOnOrderUpdateOf(s, order, t) ==
    IF order.status # OrderStatusFilled THEN s
    ELSE LET pnl == (order.price - s.entryPrice) * order.qty
             total == s.totalPnL + pnl
         IN IF order.side = SideSell /\ s.entryPrice > 0
            THEN [s EXCEPT !.lastTradeTime = t, !.totalPnL = total,
                           !.peakEquity = IF total > @ THEN total ELSE @]
            ELSE [s EXCEPT !.lastTradeTime = t]

\* AISignalStrategy.OnPositionUpdate
AIOnPositionUpdateOf(s, pos) ==
    IF pos.size # 0
    THEN [s EXCEPT !.entryPrice = pos.entryPrice, !.highestPrice = pos.entryPrice]
    ELSE [s EXCEPT !.entryPrice = 0, !.highestPrice = 0]

\* ------------------------------------- the strategy called by its dispatcher

\* Inputs of the calls: fused signals below, between and above the entry and
\* reversal thresholds; prices at and around the exit thresholds of a position
\* entered at 1000; flat, long and short positions; order updates.
AIMarketSignals ==
    { MarketSignal(SignalBiasBullish, 60, 50), MarketSignal(SignalBiasBearish, 60, 50),
      MarketSignal(SignalBiasBullish, 40, 50), MarketSignal(SignalBiasBearish, 20, 50),
      MarketSignal(SignalBiasBullish, 40, 30), MarketSignal(SignalBiasNeutral, 60, 50) }
AIPrices == {980, 990, 995, 1010, 1020}
AIPositions == { Position(sz, 1000) : sz \in {-1, 0, 1} }
AIMaxSizes == {400, 1000}

\* entity.Order as an order update carries it.
Order(side, price, qty, status) ==
    [symbol |-> Symbol, side |-> side, type |-> OrderTypeLimit, price |-> price,
     qty |-> qty, status |-> status,
     filledQty |-> IF status = OrderStatusFilled THEN qty ELSE 0]

OrderStatusOpen == "open"

AIOrders ==
    { Order(sd, p, 1, st) :
        sd \in {SideBuy, SideSell}, p \in {990, 1010},
        st \in {OrderStatusFilled, OrderStatusOpen} }

\* The OnTick call whose result the caller holds: the position, price and
\* fused signal of the call, and the signals returned.
Called(op, pos, price, msig, ret) ==
    [op |-> op, pos |-> pos, price |-> price, msig |-> msig, ret |-> ret]
NoCall == Called(NONE, NoPosition, 0, NoMarketSignal, <<>>)

restAI ==
    <<risk, mu, call, histVars, cfg, running, position, orders, strat, exch, life,
      tick, obs, loops, smu, prov, gor>>

AIInit ==
    /\ lastCall = NoCall
    /\ \E m \in AIMaxSizes : ai' = AIInitOf(ai, m)
    /\ UNCHANGED <<lastCall, now, restAI>>

AIStop ==
    /\ lastCall = NoCall
    /\ ai' = AIStopOf(ai)
    /\ UNCHANGED <<lastCall, now, restAI>>

AIOnTick ==
    /\ lastCall = NoCall
    /\ \E pos \in AIPositions \cup {NoPosition}, price \in AIPrices,
          msig \in AIMarketSignals \cup {NoMarketSignal} :
        LET res == AIOnTickOf(ai, pos, price, msig, now) IN
        /\ ai' = res.ai
        /\ lastCall' = Called("OnTick", pos, price, msig, res.signals)
    /\ UNCHANGED <<now, restAI>>

AIOnOrderUpdate ==
    /\ lastCall = NoCall
    /\ \E order \in AIOrders :
        /\ ai' = AIOnOrderUpdateOf(ai, order, now)
        /\ Abs(ai'.totalPnL) <= MaxStratPnL
    /\ UNCHANGED <<lastCall, now, restAI>>

AIOnPositionUpdate ==
    /\ lastCall = NoCall
    /\ \E pos \in AIPositions : ai' = AIOnPositionUpdateOf(ai, pos)
    /\ UNCHANGED <<lastCall, now, restAI>>

\* The caller is done with the signals OnTick returned.
AIReturn ==
    /\ lastCall # NoCall
    /\ lastCall' = NoCall
    /\ UNCHANGED <<ai, now, restAI>>

\* Ten minutes pass.
AIElapse ==
    /\ lastCall = NoCall
    /\ now + 10 <= MaxStratTime
    /\ now' = now + 10
    /\ UNCHANGED <<ai, lastCall, restAI>>

\* The state after NewAISignalStrategy, the strategy not yet initialised.
InitAI ==
    /\ InitChecker
    /\ InitBot(TRUE, MaxPositionSize)
    /\ ai = NewAISignalStrategy
    /\ lastCall = NoCall
    /\ loops = <<>>
    /\ smu = NONE
    /\ prov = NONE
    /\ gor = NONE

NextAI ==
    \/ AIInit
    \/ AIStop
    \/ AIOnTick
    \/ AIReturn
    \/ AIOnOrderUpdate
    \/ AIOnPositionUpdate
    \/ AIElapse

SpecAI == InitAI /\ [][NextAI]_vars

\* ------------------------------------ properties of the signal-driven strategy

\* OnTick has returned and the caller holds its result.
TickReturned == lastCall.op = "OnTick"
\* The market state of that call carried a position of non-zero size.
Held == ~lastCall.pos.nil /\ lastCall.pos.size # 0

EntryReasons == {"LONG Entry", "SHORT Entry"}
ExitReasons ==
    {"EXIT: Take Profit", "EXIT: Stop Loss", "EXIT: Trailing Stop", "EXIT: Signal Reversal"}

\* The closing signal of a position at a price: opposite side, the whole size.
Closes(sig, pos, price) ==
    /\ sig.side = (IF pos.size > 0 THEN SideSell ELSE SideBuy)
    /\ sig.qty = [num |-> Abs(pos.size), den |-> 1]
    /\ sig.price = price
    /\ sig.reason \in ExitReasons

\* C11: OnTick returns at most one signal.  With no position, or one of size 0,
\* in the market state the signal is an entry on the side of the fused bias
\* (buy for bullish, sell for bearish); with a position it is a closing signal
\* on the side opposite to the position (sell for size > 0, buy for size < 0)
\* for the quantity |size|.
C11_StrategySafety ==
    TickReturned =>
        /\ Len(lastCall.ret) <= 1
        /\ lastCall.ret # <<>> /\ ~Held =>
              LET sig == lastCall.ret[1] IN
              /\ sig.reason \in EntryReasons
              /\ ai.lastSignal.bias \in {SignalBiasBullish, SignalBiasBearish}
              /\ sig.side = (IF ai.lastSignal.bias = SignalBiasBullish
                             THEN SideBuy ELSE SideSell)
        /\ lastCall.ret # <<>> /\ Held =>
              Closes(lastCall.ret[1], lastCall.pos, lastCall.price)

\* A short position is closed by a buy.
C11_Witness ==
    /\ TickReturned
    /\ lastCall.pos.size < 0
    /\ lastCall.ret # <<>>
    /\ lastCall.ret[1].side = SideBuy

\* C12: whenever the running strategy is ticked with a held position whose
\* pnl is at or below -StopLossPercent, OnTick returns exactly one closing
\* signal for that position, with the reason Stop Loss, whatever fills, ticks
\* and fused signals came before.
C12_StopLossExit ==
    TickReturned /\ ai.running /\ Held /\ StopLossHit(ai, lastCall.pos, lastCall.price) =>
        /\ Len(lastCall.ret) = 1
        /\ Closes(lastCall.ret[1], lastCall.pos, lastCall.price)
        /\ lastCall.ret[1].reason = "EXIT: Stop Loss"

\* C13: on a tick of the running strategy with a held position the exit
\* conditions are taken in the order take-profit, stop-loss, trailing stop,
\* signal reversal; when at least one holds exactly one closing signal is
\* returned, with the reason of the first that holds, and when none holds no
\* signal is returned.
C13_ExitPriority ==
    TickReturned /\ ai.running /\ Held =>
        LET pos == lastCall.pos
            price == lastCall.price
            first == IF TakeProfitHit(ai, pos, price) THEN "EXIT: Take Profit"
                     ELSE IF StopLossHit(ai, pos, price) THEN "EXIT: Stop Loss"
                     ELSE IF TrailingStopHit(ai, pos, price) THEN "EXIT: Trailing Stop"
                     ELSE IF SignalReversalHit(ai, pos) THEN "EXIT: Signal Reversal"
                     ELSE NONE
        IN IF first = NONE THEN lastCall.ret = <<>>
           ELSE /\ Len(lastCall.ret) = 1
                /\ Closes(lastCall.ret[1], pos, price)
                /\ lastCall.ret[1].reason = first

\* The fused signal the strategy holds passes the entry thresholds: one has
\* been observed, strength and confidence reach their minima, the size floored
\* to whole steps is positive, the bias is not neutral.
EntryGate ==
    LET sig == ai.lastSignal
        c == ai.config
    IN /\ ~sig.nil
       /\ sig.strength >= c.MinSignalStrength
       /\ sig.confidence >= c.MinConfidence
       /\ (c.MaxPositionSize * sig.strength * sig.confidence) \div (10000 * c.PositionSizeStep) > 0
       /\ sig.bias # SignalBiasNeutral

\* C14 as stated: on a tick with no position an entry signal is returned if
\* and only if the fused signal passes the entry thresholds.
C14_AsStated ==
    TickReturned /\ ~Held => (lastCall.ret # <<>> <=> EntryGate)

\* C14: on a tick with no position an entry signal is returned if and only if
\* the strategy is running, is not in its cooldown, and the fused signal
\* passes the entry thresholds; otherwise OnTick returns no signals.
C14_EntryGating ==
    TickReturned /\ ~Held =>
        /\ lastCall.ret # <<>> <=> (ai.running /\ ~InCooldown(ai, now) /\ EntryGate)
        /\ lastCall.ret # <<>> =>
              Len(lastCall.ret) = 1 /\ lastCall.ret[1].reason \in EntryReasons

\* An entry is returned after a loss whose cooldown has run out.
C14_Witness ==
    /\ TickReturned
    /\ ~Held
    /\ lastCall.ret # <<>>
    /\ ai.totalPnL < 0

\* C15: while totalPnL < 0 and less than CooldownPeriod has passed since the
\* last filled order update, OnTick returns no signals; when totalPnL >= 0 or
\* CooldownPeriod has passed, the gate suppresses nothing: the running
\* strategy returns what its exit management or entry evaluation yields.
C15_StrategyCooldown ==
    TickReturned =>
        LET cooling == /\ ai.totalPnL < 0
                       /\ ai.lastTradeTime >= 0
                       /\ now - ai.lastTradeTime < ai.config.CooldownPeriod
        IN /\ cooling => lastCall.ret = <<>>
           /\ ~cooling /\ ai.running =>
                lastCall.ret = IF Held
                               THEN ManagePosition(ai, lastCall.pos, lastCall.price).signals
                               ELSE EvaluateEntry(ai, lastCall.price)

\* A signal is returned with totalPnL < 0 exactly CooldownPeriod after the last fill.
C15_Witness ==
    /\ TickReturned
    /\ ai.totalPnL < 0
    /\ now - ai.lastTradeTime = ai.config.CooldownPeriod
    /\ lastCall.ret # <<>>

\* ======================================= the mean-reversion strategy alone

\* MeanReversionStrategy.OnPositionUpdate
OnPositionUpdateOf(s, pos) ==
    IF pos.nil \/ pos.size = 0
    THEN [s EXCEPT !.hasPosition = FALSE, !.entryPrice = 0, !.entryTime = -1]
    ELSE [s EXCEPT !.hasPosition = TRUE, !.entryPrice = pos.entryPrice,
                   !.entrySide = pos.side]

\* entity.OrderStatus, the other values
OrderStatusPending == "pending"
OrderStatusCanceled == "canceled"
OrderStatusRejected == "rejected"

\* Inputs of the calls: prices below, inside and above the exit band of a
\* position entered at 1000; order updates; position updates.
MRPrices == {995, 1000, 1001, 1005}
MROrders ==
    { Order(sd, 1000, 1, st) :
        sd \in {SideBuy, SideSell},
        st \in {OrderStatusFilled, OrderStatusOpen, OrderStatusCanceled} }
MRPositions == {NoPosition, Position(1, 1000), Position(-1, 1000)}

\* The latest call on the strategy: operation, order or price given, signals returned.
MRCalled(op, order, price, ret) == [op |-> op, order |-> order, price |-> price, ret |-> ret]

\* History: the clock when the strategy last went from flat to holding.
OpenedAt(s, s2, t) ==
    IF ~s.hasPosition /\ s2.hasPosition THEN [openedAt |-> t] ELSE obs

restMR ==
    <<risk, mu, call, histVars, cfg, running, position, orders, exch, life, tick,
      ai, loops, smu, prov, gor>>

MRInit ==
    /\ strat' = InitOf(strat)
    /\ lastCall' = MRCalled("Init", NONE, 0, <<>>)
    /\ UNCHANGED <<now, obs, restMR>>

MRStop ==
    /\ strat' = StopOf(strat)
    /\ lastCall' = MRCalled("Stop", NONE, 0, <<>>)
    /\ UNCHANGED <<now, obs, restMR>>

MROnTick ==
    /\ \E price \in MRPrices, v \in Verdicts :
        LET res == OnTickOf(strat, price, cfg.positionSize, v, now) IN
        /\ strat' = res.strat
        /\ lastCall' = MRCalled("OnTick", NONE, price, res.signals)
    /\ UNCHANGED <<now, obs, restMR>>

MROnOrderUpdate ==
    /\ \E order \in MROrders :
        /\ strat' = OnOrderUpdateOf(strat, order, now)
        /\ lastCall' = MRCalled("OnOrderUpdate", order, 0, <<>>)
    /\ obs' = OpenedAt(strat, strat', now)
    /\ UNCHANGED <<now, restMR>>

MROnPositionUpdate ==
    /\ \E pos \in MRPositions : strat' = OnPositionUpdateOf(strat, pos)
    /\ lastCall' = MRCalled("OnPositionUpdate", NONE, 0, <<>>)
    /\ obs' = OpenedAt(strat, strat', now)
    /\ UNCHANGED <<now, restMR>>

\* A minute passes.
MRElapse ==
    /\ now < MaxTime
    /\ now' = now + 1
    /\ lastCall' = MRCalled("Elapse", NONE, 0, <<>>)
    /\ UNCHANGED <<strat, obs, restMR>>

\* The state after NewMeanReversionStrategy.
InitMR ==
    /\ InitChecker
    /\ cfg = [dryRun |-> TRUE, positionSize |-> MaxPositionSize]
    /\ running = FALSE
    /\ position = NONE
    /\ orders = <<>>
    /\ strat = NewMeanReversionStrategy
    /\ exch = [wsConnected |-> FALSE, tickerHandlers |-> 0]
    /\ life = [c \in LifeThreads |-> IdleLife]
    /\ tick = IdleTick
    /\ obs = [openedAt |-> -1]
    /\ ai = NONE
    /\ lastCall = MRCalled(NONE, NONE, 0, <<>>)
    /\ loops = <<>>
    /\ smu = NONE
    /\ prov = NONE
    /\ gor = NONE

NextMR ==
    \/ MRInit
    \/ MRStop
    \/ MROnTick
    \/ MROnOrderUpdate
    \/ MROnPositionUpdate
    \/ MRElapse

SpecMR == InitMR /\ [][NextMR]_vars

\* ---------------------------------- properties of the mean-reversion strategy

\* C16: when the strategy holds a position opened more than MaxHoldTime ago
\* and the price is strictly inside the take-profit/stop-loss band, OnTick
\* returns exactly one closing signal, on the side opposite to the entry side,
\* with a Timeout reason; when the position is younger than MaxHoldTime and the
\* price is inside the band, OnTick returns no exit signal.
C16_TimeoutExit ==
    [][ LET p == lastCall'.price * PctScale
            e == strat.entryPrice
            inBand == IF strat.entrySide = SideBuy
                      THEN e * (PctScale - StopLossPct) < p /\ p < e * (PctScale + TakeProfitPct)
                      ELSE e * (PctScale - TakeProfitPct) < p /\ p < e * (PctScale + StopLossPct)
            age == now - obs.openedAt
        IN lastCall'.op = "OnTick" /\ strat.hasPosition /\ inBand =>
             /\ age > MaxHoldTime =>
                  /\ Len(lastCall'.ret) = 1
                  /\ lastCall'.ret[1].side = (IF strat.entrySide = SideBuy THEN SideSell ELSE SideBuy)
                  /\ lastCall'.ret[1].reason = "Timeout exit"
             /\ age < MaxHoldTime => lastCall'.ret = <<>>
      ]_vars

\* C17: a filled order received while flat makes the strategy hold a
\* position with the order's side and price as entry side and entry price; a
\* filled order on the side opposite to the entry side received while holding
\* makes it flat and clears the entry price; an update with a status other than
\* filled, and a filled order on the side of the held position, leave the
\* position state unchanged.
C17_PositionLifecycle ==
    [][ lastCall'.op = "OnOrderUpdate" =>
          LET o == lastCall'.order
              filled == o.status = OrderStatusFilled
          IN /\ filled /\ ~strat.hasPosition =>
                   /\ strat'.hasPosition
                   /\ strat'.entrySide = o.side
                   /\ strat'.entryPrice = o.price
             /\ filled /\ strat.hasPosition /\ o.side # strat.entrySide =>
                   ~strat'.hasPosition /\ strat'.entryPrice = 0
             /\ ~filled \/ (strat.hasPosition /\ o.side = strat.entrySide) =>
                   strat' = strat
      ]_vars

\* The strategy has just been made flat by a filled order opposite to its entry side.
C17_Witness ==
    /\ lastCall.op = "OnOrderUpdate"
    /\ lastCall.order.status = OrderStatusFilled
    /\ lastCall.order.side # strat.entrySide
    /\ strat.entrySide # ""
    /\ ~strat.hasPosition
    /\ obs.openedAt >= 0

\* ============================ ticks delivered by more than one gateway thread

\* Threads of the exchange gateway that call the handler given to SubscribeTicker.
FeedThreads == {"f1", "f2"}

restFeed == <<mu, now, call, cfg, running, position, orders, exch, life, tick, ai, lastCall, prov, gor>>

\* A gateway thread has a mid price for the subscribed symbol and calls b.onTicker.
FeedRead(f) ==
    /\ loops[f].pc = "idle"
    /\ obs.approved < MaxEmit
    /\ \E p \in Prices :
        loops' = [loops EXCEPT ![f] = [pc |-> "onTicker", price |-> p, hleft |-> 1, sigs |-> <<>>]]
    /\ UNCHANGED <<risk, histVars, strat, obs, smu, restFeed>>

\* onTicker under b.mu.RLock: return when not running, else take the snapshot
\* and call b.strategy.OnTick.
FeedOnTickerEnter(f) ==
    /\ loops[f].pc = "onTicker"
    /\ loops' = [loops EXCEPT ![f] = IF running THEN [@ EXCEPT !.pc = "onTick"]
                                     ELSE AfterHandler(@)]
    /\ UNCHANGED <<risk, histVars, strat, obs, smu, restFeed>>

\* OnTick: s.mu.Lock().
FeedOnTickLock(f) ==
    /\ loops[f].pc = "onTick"
    /\ smu = NONE
    /\ smu' = f
    /\ loops' = [loops EXCEPT ![f].pc = "inTick"]
    /\ UNCHANGED <<risk, histVars, strat, obs, restFeed>>

\* OnTick: the body, s.mu.Unlock() and the return to onTicker.
FeedOnTickReturn(f) ==
    /\ loops[f].pc = "inTick"
    /\ \E v \in Verdicts :
        LET res == OnTickOf(strat, loops[f].price, cfg.positionSize, v, now) IN
        /\ strat' = res.strat
        /\ loops' = [loops EXCEPT ![f] = IF res.signals = <<>> THEN AfterHandler(@)
                                         ELSE [@ EXCEPT !.pc = "canTrade", !.sigs = res.signals]]
    /\ smu' = NONE
    /\ UNCHANGED <<risk, histVars, obs, restFeed>>

\* processSignal: b.risk.CanTrade().
FeedCanTrade(f) ==
    /\ loops[f].pc = "canTrade"
    /\ loops' = [loops EXCEPT ![f] = IF CanTradeOf(risk, now).Allowed
                                     THEN [@ EXCEPT !.pc = "checkSize"]
                                     ELSE AfterSignal(@)]
    /\ UNCHANGED <<risk, histVars, strat, obs, smu, restFeed>>

\* processSignal: b.risk.CheckPositionSize(sig.Quantity).
FeedCheckSize(f) ==
    /\ loops[f].pc = "checkSize"
    /\ IF CheckPositionSize(Head(loops[f].sigs).qty).Allowed
       THEN /\ loops' = [loops EXCEPT ![f].pc = "execute"]
            /\ obs' = [obs EXCEPT !.approved = @ + 1]
       ELSE /\ loops' = [loops EXCEPT ![f] = AfterSignal(@)]
            /\ UNCHANGED obs
    /\ UNCHANGED <<risk, histVars, strat, smu, restFeed>>

\* executeOrder in dry-run mode; the strategy's OnOrderUpdate takes s.mu.
FeedExecuteDryRun(f) ==
    /\ loops[f].pc = "execute"
    /\ cfg.dryRun
    /\ smu = NONE
    /\ LET order == FilledOf(OrderOf(Head(loops[f].sigs))) IN
        /\ strat' = OnOrderUpdateOf(strat, order, now)
        /\ obs' = [obs EXCEPT !.updates = @ + 1, !.lastUpdate = order]
    /\ loops' = [loops EXCEPT ![f] = AfterSignal(@)]
    /\ UNCHANGED <<risk, histVars, smu, restFeed>>

\* executeOrder in live mode: PlaceOrder, and RecordTrade(-0.001) when it fails.
FeedExecutePlaceOrder(f) ==
    /\ loops[f].pc = "execute"
    /\ ~cfg.dryRun
    /\ \E ok \in BOOLEAN :
        IF ok
        THEN /\ obs' = [obs EXCEPT !.placed = @ + 1]
             /\ UNCHANGED <<risk, histVars>>
        ELSE /\ obs' = [obs EXCEPT !.placed = @ + 1, !.failed = @ + 1]
             /\ risk' = RecordTradeOf(risk, FailureSentinel, now)
             /\ Recorded(FailureSentinel)
             /\ UNCHANGED haltActive
    /\ loops' = [loops EXCEPT ![f] = AfterSignal(@)]
    /\ UNCHANGED <<strat, smu, restFeed>>

\* The dispatcher started and subscribed, in either mode; no tick in progress.
InitFeed ==
    /\ InitChecker
    /\ \E dry \in BOOLEAN : cfg = [dryRun |-> dry, positionSize |-> MaxPositionSize]
    /\ running = TRUE
    /\ position = NONE
    /\ orders = <<>>
    /\ strat = InitOf(NewMeanReversionStrategy)
    /\ exch = [wsConnected |-> TRUE, tickerHandlers |-> 1]
    /\ life = [c \in LifeThreads |-> IdleLife]
    /\ tick = IdleTick
    /\ obs = [NewObs EXCEPT !.starts = 1, !.live = 1, !.inits = 1, !.connects = 1, !.subs = 1]
    /\ ai = NONE
    /\ lastCall = NONE
    /\ loops = [f \in FeedThreads |-> IdleTick]
    /\ smu = NONE
    /\ prov = NONE
    /\ gor = NONE

NextFeed ==
    \/ \E f \in FeedThreads : FeedRead(f)
    \/ \E f \in FeedThreads : FeedOnTickerEnter(f)
    \/ \E f \in FeedThreads : FeedOnTickLock(f)
    \/ \E f \in FeedThreads : FeedOnTickReturn(f)
    \/ \E f \in FeedThreads : FeedCanTrade(f)
    \/ \E f \in FeedThreads : FeedCheckSize(f)
    \/ \E f \in FeedThreads : FeedExecuteDryRun(f)
    \/ \E f \in FeedThreads : FeedExecutePlaceOrder(f)

SpecFeed == InitFeed /\ [][NextFeed]_vars

\* C18: the dispatcher never has two strategy.OnTick invocations in progress
\* at the same time, also when the gateway delivers ticks from more than one
\* thread.
C18_TickSerialization ==
    Cardinality({f \in FeedThreads : loops[f].pc \in {"onTick", "inTick"}}) <= 1

\* ================================================ order updates and the risk gate

\* onOrderUpdate: pnl := (order.Price - pos.EntryPrice) * order.FilledQty,
\* negated when pos.Side is sell; in thousandths, as the risk gate counts.
RealizedPnL(pos, order) ==
    LET pnl == 1000 * (order.price - pos.entryPrice) * order.filledQty IN
    IF pos.side = SideSell THEN -pnl ELSE pnl

\* C19: every filled order update that arrives while a position is held makes
\* exactly one RecordTrade call on the risk gate, with pnl = (order price -
\* entry price) * filled quantity, negated for a short position, so that the
\* realized result advances the daily PnL. The position held is the one the
\* dispatcher's strategy tracks: b.position is never assigned.
C19_PnLFeedback ==
    [][ ( /\ obs'.updates = obs.updates + 1
          /\ obs'.lastUpdate.status = OrderStatusFilled
          /\ strat.hasPosition )
        => LET pnl == RealizedPnL([side |-> strat.entrySide, entryPrice |-> strat.entryPrice],
                                  obs'.lastUpdate)
           IN /\ ledger' = ledger + pnl
              /\ risk'.dailyPnL = risk.dailyPnL + pnl ]_vars

\* ------------------------------------------------ the order update handler

\* Orders known to the exchange, and the updates it sends about them: an
\* update carries the whole order; its filled quantity is the quantity when
\* the status is filled and zero otherwise.
OrderIDs == {"o1", "o2"}
OrderUpdates ==
    { [id |-> i, symbol |-> Symbol, side |-> sd, type |-> OrderTypeLimit, price |-> 1000,
       qty |-> 1, status |-> st, filledQty |-> IF st = OrderStatusFilled THEN 1 ELSE 0] :
        i \in OrderIDs, sd \in {SideBuy, SideSell},
        st \in {OrderStatusPending, OrderStatusOpen, OrderStatusFilled,
                OrderStatusCanceled, OrderStatusRejected} }

\* Mutant of UpdateOrders: an update with an unknown ID is appended whatever
\* its status.
UpdateOrders_AnyStatus(os, order) ==
    LET hits == {i \in DOMAIN os : os[i].id = order.id} IN
    IF hits # {}
    THEN [os EXCEPT ![CHOOSE i \in hits : \A j \in hits : i <= j] = order]
    ELSE Append(os, order)

\* onOrderUpdate under b.mu: the first order of the list with the update's ID
\* is replaced by the update; an update with an unknown ID is appended when
\* its status is open.
UpdateOrders(os, order) ==
    LET hits == {i \in DOMAIN os : os[i].id = order.id} IN
    IF hits # {}
    THEN [os EXCEPT ![CHOOSE i \in hits : \A j \in hits : i <= j] = order]
    ELSE IF order.status = OrderStatusOpen THEN Append(os, order) ELSE os

\* The exchange calls the handler given to SubscribeOrders: the orders list,
\* b.strategy.OnOrderUpdate, and for a filled order with a position held the
\* realized PnL recorded on the risk gate.
OrdOnOrderUpdate ==
    /\ \E order \in OrderUpdates :
        /\ orders' = UpdateOrders(orders, order)
        /\ strat' = OnOrderUpdateOf(strat, order, now)
        /\ IF order.status = OrderStatusFilled /\ position # NONE /\ position.size > 0
           THEN /\ risk' = RecordTradeOf(risk, RealizedPnL(position, order), now)
                /\ Recorded(RealizedPnL(position, order))
                /\ UNCHANGED haltActive
           ELSE UNCHANGED <<risk, histVars>>
    /\ UNCHANGED <<mu, now, call, cfg, running, position, exch, life, tick, obs, auxVars>>

\* The dispatcher started in live mode and subscribed; no order known yet.
InitOrd ==
    /\ InitChecker
    /\ cfg = [dryRun |-> FALSE, positionSize |-> MaxPositionSize]
    /\ running = TRUE
    /\ position = NONE
    /\ orders = <<>>
    /\ strat = InitOf(NewMeanReversionStrategy)
    /\ exch = [wsConnected |-> TRUE, tickerHandlers |-> 1]
    /\ life = [c \in LifeThreads |-> IdleLife]
    /\ tick = IdleTick
    /\ obs = [NewObs EXCEPT !.starts = 1, !.live = 1, !.inits = 1, !.connects = 1, !.subs = 1]
    /\ InitAux

NextOrd == OrdOnOrderUpdate

SpecOrd == InitOrd /\ [][NextOrd]_vars

\* C20: an order of the dispatcher's orders list whose status is filled,
\* canceled or rejected keeps that status whatever update arrives later, a
\* late update with the same ID and status open or pending included; and
\* every order of the list with status filled has filled_qty = quantity.
C20_TerminalStates ==
    [][ /\ \A i \in DOMAIN orders :
            orders[i].status \in {OrderStatusFilled, OrderStatusCanceled, OrderStatusRejected}
            => \E j \in DOMAIN orders' :
                   /\ orders'[j].id = orders[i].id
                   /\ orders'[j].status = orders[i].status
        /\ \A j \in DOMAIN orders' :
            orders'[j].status = OrderStatusFilled => orders'[j].filledQty = orders'[j].qty ]_vars

\* ==================================================== entity: the signal fuser
\* Units: scores in ten-thousandths (0.3 is 3000), the funding rate in
\* millionths, the long/short ratio, the sentiment score and the Fed
\* probabilities in hundredths, amounts in million USD.  A pointer field of
\* the market signal is a sequence: empty for nil, else of the one value.
\* Strength is the exact fraction num / den, confidence a number of fifths.

\* "5 possible data sources": confidence is dataPoints / 5.0.
DataSources == 5

\* GetAlertType: the owners that count as exchanges.
Exchanges ==
    {"binance", "coinbase", "kraken", "bitfinex", "bybit", "okx", "huobi", "kucoin", "gate.io"}

WhaleAlertExchangeInflow == "exchange_inflow"
WhaleAlertExchangeOutflow == "exchange_outflow"
WhaleAlertWalletTransfer == "wallet_transfer"
WhaleAlertUnknown == "unknown"

\* Mutant of GetAlertType: the inflow case does not test the sender.
GetAlertType_AnyToExchange(fromOwner, toOwner) ==
    LET fromIsExchange == fromOwner \in Exchanges
        toIsExchange == toOwner \in Exchanges
    IN IF toIsExchange THEN WhaleAlertExchangeInflow
       ELSE IF fromIsExchange THEN WhaleAlertExchangeOutflow
       ELSE WhaleAlertWalletTransfer

\* WhaleAlert.GetAlertType
GetAlertType(fromOwner, toOwner) ==
    LET fromIsExchange == fromOwner \in Exchanges
        toIsExchange == toOwner \in Exchanges
    IN IF ~fromIsExchange /\ toIsExchange THEN WhaleAlertExchangeInflow
       ELSE IF fromIsExchange /\ ~toIsExchange THEN WhaleAlertExchangeOutflow
       ELSE IF ~fromIsExchange /\ ~toIsExchange THEN WhaleAlertWalletTransfer
       ELSE WhaleAlertUnknown

\* entity.WhaleAlert and entity.Liquidation, with the fields the fuser and
\* the provider read.
WhaleAlert(fromOwner, toOwner, amountUSD, timestamp) ==
    [fromOwner |-> fromOwner, toOwner |-> toOwner, amountUSD |-> amountUSD,
     timestamp |-> timestamp]
Liquidation(side, value, timestamp) == [side |-> side, value |-> value, timestamp |-> timestamp]

RECURSIVE SumSeq(_)
\* Sum of a sequence of numbers: the accumulating loops of AnalyzeSignal.
SumSeq(q) == IF q = <<>> THEN 0 ELSE Head(q) + SumSeq(Tail(q))

\* AnalyzeSignal, the scoring of the inputs present: funding rate, long/short
\* ratio, whale alerts, liquidations, social sentiment.
Scores(s) ==
    LET fr == IF s.fundingRate = <<>> THEN [bull |-> 0, bear |-> 0, n |-> 0]
              ELSE IF s.fundingRate[1] > 100 THEN [bull |-> 0, bear |-> 3000, n |-> 1]
              ELSE IF s.fundingRate[1] < -100 THEN [bull |-> 3000, bear |-> 0, n |-> 1]
              ELSE [bull |-> 0, bear |-> 0, n |-> 1]
        ls == IF s.longShortRatio = <<>> THEN [bull |-> 0, bear |-> 0, n |-> 0]
              ELSE IF s.longShortRatio[1] > 150 THEN [bull |-> 0, bear |-> 2000, n |-> 1]
              ELSE IF s.longShortRatio[1] < 70 THEN [bull |-> 2000, bear |-> 0, n |-> 1]
              ELSE [bull |-> 0, bear |-> 0, n |-> 1]
        typeOf(a) == GetAlertType(a.fromOwner, a.toOwner)
        inflowValue == SumSeq([i \in DOMAIN s.recentWhaleAlerts |->
                          IF typeOf(s.recentWhaleAlerts[i]) = WhaleAlertExchangeInflow
                          THEN s.recentWhaleAlerts[i].amountUSD ELSE 0])
        outflowValue == SumSeq([i \in DOMAIN s.recentWhaleAlerts |->
                          IF typeOf(s.recentWhaleAlerts[i]) = WhaleAlertExchangeOutflow
                          THEN s.recentWhaleAlerts[i].amountUSD ELSE 0])
        wa == IF Len(s.recentWhaleAlerts) = 0 THEN [bull |-> 0, bear |-> 0, n |-> 0]
              ELSE IF 2 * inflowValue > 3 * outflowValue THEN [bull |-> 0, bear |-> 3000, n |-> 1]
              ELSE IF 2 * outflowValue > 3 * inflowValue THEN [bull |-> 3000, bear |-> 0, n |-> 1]
              ELSE [bull |-> 0, bear |-> 0, n |-> 1]
        longLiqValue == SumSeq([i \in DOMAIN s.recentLiquidations |->
                          IF s.recentLiquidations[i].side = "long"
                          THEN s.recentLiquidations[i].value ELSE 0])
        shortLiqValue == SumSeq([i \in DOMAIN s.recentLiquidations |->
                          IF s.recentLiquidations[i].side = "long"
                          THEN 0 ELSE s.recentLiquidations[i].value])
        lq == IF Len(s.recentLiquidations) = 0 THEN [bull |-> 0, bear |-> 0, n |-> 0]
              ELSE IF longLiqValue > shortLiqValue * 2 THEN [bull |-> 0, bear |-> 2000, n |-> 1]
              ELSE IF shortLiqValue > longLiqValue * 2 THEN [bull |-> 2000, bear |-> 0, n |-> 1]
              ELSE [bull |-> 0, bear |-> 0, n |-> 1]
        score == IF s.socialSentiment = <<>> THEN 0 ELSE s.socialSentiment[1]
        ss == IF s.socialSentiment = <<>> THEN [bull |-> 0, bear |-> 0, n |-> 0]
              ELSE IF score > 20 THEN [bull |-> 25 * score, bear |-> 0, n |-> 1]
              ELSE IF score < -20 THEN [bull |-> 0, bear |-> 25 * (-score), n |-> 1]
              ELSE [bull |-> 0, bear |-> 0, n |-> 1]
    IN [bullishScore |-> fr.bull + ls.bull + wa.bull + lq.bull + ss.bull,
        bearishScore |-> fr.bear + ls.bear + wa.bear + lq.bear + ss.bear,
        dataPoints |-> fr.n + ls.n + wa.n + lq.n + ss.n]

\* Mutant of Resolve: the strength is the difference of the scores (in
\* ten-thousandths), not divided by their sum.
Resolve_Unnormalized(bullishScore, bearishScore, dataPoints) ==
    LET totalScore == bullishScore + bearishScore IN
    IF totalScore = 0
    THEN [bias |-> SignalBiasNeutral, strength |-> [num |-> 0, den |-> 1], confidence |-> 0]
    ELSE IF bullishScore > bearishScore
    THEN [bias |-> SignalBiasBullish,
          strength |-> [num |-> bullishScore - bearishScore, den |-> 10000],
          confidence |-> dataPoints]
    ELSE IF bearishScore > bullishScore
    THEN [bias |-> SignalBiasBearish,
          strength |-> [num |-> bearishScore - bullishScore, den |-> 10000],
          confidence |-> dataPoints]
    ELSE [bias |-> SignalBiasNeutral, strength |-> [num |-> 0, den |-> totalScore],
          confidence |-> dataPoints]

\* Mutant of Resolve: equal scores count as bullish.
Resolve_TieBullish(bullishScore, bearishScore, dataPoints) ==
    LET totalScore == bullishScore + bearishScore IN
    IF totalScore = 0
    THEN [bias |-> SignalBiasNeutral, strength |-> [num |-> 0, den |-> 1], confidence |-> 0]
    ELSE IF bullishScore >= bearishScore
    THEN [bias |-> SignalBiasBullish,
          strength |-> [num |-> bullishScore - bearishScore, den |-> totalScore],
          confidence |-> dataPoints]
    ELSE [bias |-> SignalBiasBearish,
          strength |-> [num |-> bearishScore - bullishScore, den |-> totalScore],
          confidence |-> dataPoints]

\* AnalyzeSignal, "Calculate final signal": bias, strength and confidence
\* from the two scores and the number of inputs present.  Strength is the
\* fraction num / den; confidence is in fifths, dataPoints / DataSources.
Resolve(bullishScore, bearishScore, dataPoints) ==
    LET totalScore == bullishScore + bearishScore IN
    IF totalScore = 0
    THEN [bias |-> SignalBiasNeutral, strength |-> [num |-> 0, den |-> 1], confidence |-> 0]
    ELSE IF bullishScore > bearishScore
    THEN [bias |-> SignalBiasBullish,
          strength |-> [num |-> bullishScore - bearishScore, den |-> totalScore],
          confidence |-> dataPoints]
    ELSE IF bearishScore > bullishScore
    THEN [bias |-> SignalBiasBearish,
          strength |-> [num |-> bearishScore - bullishScore, den |-> totalScore],
          confidence |-> dataPoints]
    ELSE [bias |-> SignalBiasNeutral, strength |-> [num |-> 0, den |-> totalScore],
          confidence |-> dataPoints]

\* MarketSignal.AnalyzeSignal; the Fed probabilities the callers set on the
\* signal are not read.
AnalyzeSignal(s) ==
    LET sc == Scores(s) IN Resolve(sc.bullishScore, sc.bearishScore, sc.dataPoints)

\* ------------------------------------------------------------ the fuser
\* AnalyzeSignal and GetAlertType called on inputs on both sides of every
\* threshold: funding rate in millionths, long/short ratio, sentiment score
\* and Fed probabilities in hundredths, amounts in millions of USD.

FundingRates == {<<>>, <<-500>>, <<50>>, <<500>>}
LongShortRatios == {<<>>, <<50>>, <<100>>, <<200>>}
WhaleFlows ==
    {<<>>,
     <<WhaleAlert("binance", "unknown", 50, 0)>>,
     <<WhaleAlert("unknown", "binance", 50, 0)>>,
     <<WhaleAlert("binance", "unknown", 50, 0), WhaleAlert("unknown", "binance", 10, 0)>>,
     <<WhaleAlert("unknown", "unknown", 50, 0)>>}
LiquidationFlows ==
    {<<>>, <<Liquidation("long", 10, 0)>>, <<Liquidation("short", 10, 0)>>,
     <<Liquidation("long", 10, 0), Liquidation("short", 10, 0)>>}
SentimentScores == {<<>>, <<-50>>, <<10>>, <<50>>, <<100>>}
FedProbs == {<<0, 0>>, <<70, 10>>, <<10, 60>>}
Owners == {"binance", "coinbase", "unknown", "", "Binance"}

\* The call made last and what it returned; scores are the intermediate
\* sums of AnalyzeSignal.
FuseCalled(op, arg, scores, ret) == [op |-> op, arg |-> arg, scores |-> scores, ret |-> ret]

restFuse ==
    <<risk, mu, now, call, histVars, cfg, running, position, orders, strat, exch, life,
      tick, obs, ai, loops, smu, prov, gor>>

\* signal.AnalyzeSignal() on a MarketSignal with any of the inputs set.
FuseAnalyzeSignal ==
    /\ lastCall.op = NONE
    /\ \E fr \in FundingRates, ls \in LongShortRatios, wa \in WhaleFlows,
          lq \in LiquidationFlows, ss \in SentimentScores, fed \in FedProbs :
        LET s == [fundingRate |-> fr, longShortRatio |-> ls, recentWhaleAlerts |-> wa,
                  recentLiquidations |-> lq, socialSentiment |-> ss,
                  fedCutProb |-> fed[1], fedHikeProb |-> fed[2]]
        IN lastCall' = FuseCalled("AnalyzeSignal", s, Scores(s), AnalyzeSignal(s))
    /\ UNCHANGED restFuse

\* alert.GetAlertType() on an alert with any owners.
FuseGetAlertType ==
    /\ lastCall.op = NONE
    /\ \E fromOwner \in Owners, toOwner \in Owners :
        lastCall' = FuseCalled("GetAlertType", <<fromOwner, toOwner>>, <<>>,
                               GetAlertType(fromOwner, toOwner))
    /\ UNCHANGED restFuse

\* The caller has read the result.
FuseReturn ==
    /\ lastCall.op # NONE
    /\ lastCall' = FuseCalled(NONE, <<>>, <<>>, <<>>)
    /\ UNCHANGED restFuse

InitFuse ==
    /\ InitChecker
    /\ InitBot(TRUE, MaxPositionSize)
    /\ ai = NONE
    /\ lastCall = FuseCalled(NONE, <<>>, <<>>, <<>>)
    /\ loops = <<>>
    /\ smu = NONE
    /\ prov = NONE
    /\ gor = NONE

NextFuse == FuseAnalyzeSignal \/ FuseGetAlertType \/ FuseReturn

SpecFuse == InitFuse /\ [][NextFuse]_vars

\* AnalyzeSignal was the last call.
Analyzed == lastCall.op = "AnalyzeSignal"

\* C26: whichever inputs are present, AnalyzeSignal yields a strength in
\* [0, 1], a confidence in [0, 1], and strength 0 exactly when the bias is
\* neutral.
C26_FuserBounds ==
    Analyzed =>
        LET r == lastCall.ret IN
        /\ r.strength.den > 0
        /\ 0 <= r.strength.num /\ r.strength.num <= r.strength.den
        /\ 0 <= r.confidence /\ r.confidence <= DataSources
        /\ r.strength.num = 0 <=> r.bias = SignalBiasNeutral

\* All five inputs are present and disagree: bearish funding rate against
\* bullish whale flows and sentiment; strength strictly between 0 and 1,
\* confidence 1.
C26_Witness ==
    /\ Analyzed
    /\ lastCall.scores.dataPoints = DataSources
    /\ lastCall.scores.bearishScore > 0
    /\ lastCall.ret.bias = SignalBiasBullish
    /\ 0 < lastCall.ret.strength.num /\ lastCall.ret.strength.num < lastCall.ret.strength.den
    /\ lastCall.ret.confidence = DataSources

\* C27: with total the sum of the two scores: total is 0 when no input is
\* present, and total 0 gives neutral, strength 0, confidence 0; otherwise
\* the strength is |bullish - bearish| / total, the bias is the side of the
\* larger score, and equal scores give neutral with strength 0.
C27_FuserResolution ==
    Analyzed =>
        LET r == lastCall.ret
            bull == lastCall.scores.bullishScore
            bear == lastCall.scores.bearishScore
            total == bull + bear
            diff == IF bull >= bear THEN bull - bear ELSE bear - bull
        IN /\ lastCall.scores.dataPoints = 0 => total = 0
           /\ total = 0 =>
                r.bias = SignalBiasNeutral /\ r.strength.num = 0 /\ r.confidence = 0
           /\ total # 0 =>
                /\ r.strength.num * total = diff * r.strength.den
                /\ bull > bear => r.bias = SignalBiasBullish
                /\ bear > bull => r.bias = SignalBiasBearish
                /\ bull = bear => r.bias = SignalBiasNeutral /\ r.strength.num = 0

\* Equal scores that are not zero: a bullish funding rate against bearish
\* whale flows.
C27_Witness ==
    /\ Analyzed
    /\ lastCall.scores.bullishScore = lastCall.scores.bearishScore
    /\ lastCall.scores.bullishScore > 0
    /\ lastCall.ret.bias = SignalBiasNeutral
    /\ lastCall.ret.confidence > 0

\* C28: on a signal with Fed probabilities, a cut probability above 0.5
\* adds 0.3 x cut to the bullish score, a hike probability above 0.3 adds
\* 0.3 x hike to the bearish score, the macro input is one data point and
\* the confidence is min(1, dataPoints / 5).
C28_MacroInput ==
    (Analyzed /\ (lastCall.arg.fedCutProb > 0 \/ lastCall.arg.fedHikeProb > 0)) =>
        LET r == lastCall.ret
            cut == lastCall.arg.fedCutProb
            hike == lastCall.arg.fedHikeProb
            bull == lastCall.scores.bullishScore + (IF cut > 50 THEN 30 * cut ELSE 0)
            bear == lastCall.scores.bearishScore + (IF hike > 30 THEN 30 * hike ELSE 0)
            points == lastCall.scores.dataPoints + 1
            want == Resolve(bull, bear, IF points > DataSources THEN DataSources ELSE points)
        IN /\ r.bias = want.bias
           /\ r.strength.num * want.strength.den = want.strength.num * r.strength.den
           /\ r.confidence = want.confidence

\* C29: GetAlertType returns one of the four categories: exchange_inflow
\* iff the receiver alone is an exchange, exchange_outflow iff the sender
\* alone is, wallet_transfer iff neither is, unknown iff both are.
C29_WhaleCategorization ==
    lastCall.op = "GetAlertType" =>
        LET fromIsExchange == lastCall.arg[1] \in Exchanges
            toIsExchange == lastCall.arg[2] \in Exchanges
            type == lastCall.ret
        IN /\ type \in {WhaleAlertExchangeInflow, WhaleAlertExchangeOutflow,
                        WhaleAlertWalletTransfer, WhaleAlertUnknown}
           /\ type = WhaleAlertExchangeInflow <=> (~fromIsExchange /\ toIsExchange)
           /\ type = WhaleAlertExchangeOutflow <=> (fromIsExchange /\ ~toIsExchange)
           /\ type = WhaleAlertWalletTransfer <=> (~fromIsExchange /\ ~toIsExchange)
           /\ type = WhaleAlertUnknown <=> (fromIsExchange /\ toIsExchange)

\* An alert from one exchange to another is of type unknown.
C29_Witness ==
    /\ lastCall.op = "GetAlertType"
    /\ lastCall.arg = <<"binance", "coinbase">>
    /\ lastCall.ret = WhaleAlertUnknown

\* ====================================================== signal.Provider
\* One symbol, "BTC".  The clock is in minutes.

\* The clock of the provider runs to MaxProvTime minutes; the whale alert
\* list takes inserts while it is shorter than MaxCache; at most MaxHandlers
\* handlers subscribe; Start is called at most MaxProvStarts times.
MaxProvTime == 31
MaxCache == 2
MaxHandlers == 2
MaxProvStarts == 2

\* The data sources a Provider can be configured with.
Producers == {"coinglass", "whalealert", "lunarcrush"}
\* The goroutine calling Start and Stop; the collectData goroutine: a Start
\* that launches one is called when the one before has exited.
ProvCallers == {"p1"}
BuildLoops == {1}

\* mapBlockchainToSymbol
MapBlockchainToSymbol(blockchain) ==
    CASE blockchain = "bitcoin" -> "BTC"
      [] blockchain = "ethereum" -> "ETH"
      [] blockchain = "tron" -> "TRX"
      [] blockchain = "solana" -> "SOL"
      [] OTHER -> ""

\* Mutant of Retained: the entries are kept whatever their age.
Retained_All(entries, t, window) == entries

\* onWhaleAlert / onLiquidation: the entries whose Timestamp is after the
\* cutoff time.Now() - window, in their order.
Retained(entries, t, window) ==
    SelectSeq(entries, LAMBDA e : e.timestamp > t - window)

\* onWhaleAlert under p.mu: the list of the symbol "BTC" after the call.
OnWhaleAlertOf(alerts, blockchain, alert, t) ==
    IF MapBlockchainToSymbol(blockchain) = "BTC"
    THEN Append(Retained(alerts, t, 30), alert)
    ELSE alerts

\* Mutant of OnLiquidationOf: the new entry is put in front.
OnLiquidationOf_Front(liqs, liq, t) == <<liq>> \o Retained(liqs, t, 10)

\* onLiquidation under p.mu: the list of the symbol after the call.
OnLiquidationOf(liqs, liq, t) == Append(Retained(liqs, t, 10), liq)

\* The signal GetMarketSignal assembles: Symbol "BTC" and Timestamp, the
\* pulls of the configured sources (a failed pull is an empty sequence), the
\* cache read under p.mu.RLock; the macro fields are left at zero.
Assemble(p, pull, t) ==
    LET fresh == IF "lunarcrush" \in p.clients THEN pull.socialSentiment ELSE <<>> IN
    [timestamp |-> t,
     fundingRate |-> IF "coinglass" \in p.clients THEN pull.fundingRate ELSE <<>>,
     longShortRatio |-> IF "coinglass" \in p.clients THEN pull.longShortRatio ELSE <<>>,
     recentWhaleAlerts |-> p.recentWhaleAlerts,
     recentLiquidations |-> p.recentLiquidations,
     socialSentiment |-> IF fresh = <<>> THEN p.recentSentiment ELSE fresh,
     fedCutProb |-> 0, fedHikeProb |-> 0]

\* Mutant of GetMarketSignalOf: a failed pull makes the call fail.
GetMarketSignalOf_FailFast(p, pull, t) ==
    [err |-> \E f \in DOMAIN pull : pull[f] = <<>>, pull |-> pull,
     signal |-> Assemble(p, pull, t), result |-> AnalyzeSignal(Assemble(p, pull, t))]

\* GetMarketSignal: the signal assembled, AnalyzeSignal, return signal, nil.
\* pull is kept with the result as history.
GetMarketSignalOf(p, pull, t) ==
    [err |-> FALSE, pull |-> pull,
     signal |-> Assemble(p, pull, t), result |-> AnalyzeSignal(Assemble(p, pull, t))]

\* NewProvider with the given sources configured.
NewProvider(clients) ==
    [clients |-> clients, running |-> FALSE, signalHandlers |-> <<>>,
     recentWhaleAlerts |-> <<>>, recentLiquidations |-> <<>>, recentSentiment |-> <<>>,
     mu |-> {}, polling |-> [c \in Producers |-> 0]]

\* Mutant of ProviderStartAccepts: Start without the test of p.running.
ProviderStartAccepts_Always(r) == TRUE

\* Start's test of p.running under p.mu: the call goes ahead when the
\* provider is not running.
ProviderStartAccepts(r) == ~r

\* A collectData goroutine: not launched ("none"), waiting for its ticker,
\* building, broadcasting (handlers: the copy taken under RLock; next: the
\* handler to call) or exited.  History: atBegin, the handlers registered
\* when broadcastSignal was called; invoked, the handlers it has called.
NoBuild ==
    [pc |-> "none", built |-> <<>>, handlers |-> <<>>, next |-> 0,
     invoked |-> <<>>, atBegin |-> <<>>]

\* The goroutines around a Provider.  History: starts, the Start calls
\* made; connects, the Connect calls made; failed, the number of sources
\* whose Connect failed in the latest Start; startRet, what the latest Start
\* returned; whaleTimes, the times at which onWhaleAlert stored an alert.
NewGor ==
    [call |-> [c \in ProvCallers |-> "idle"], build |-> [b \in BuildLoops |-> NoBuild],
     starts |-> 0, connects |-> 0, failed |-> 0, startRet |-> "none", whaleTimes |-> {}]

restProv ==
    <<risk, mu, call, histVars, cfg, running, position, orders, strat, exch, life, tick,
      obs, ai, lastCall, loops, smu>>

\* A caller invokes Start or Stop.
ProvCall(c, op) ==
    /\ gor.call[c] = "idle"
    /\ op = "start" =>
        /\ gor.starts < MaxProvStarts
        /\ prov.running \/ \E b \in BuildLoops : gor.build[b].pc \in {"none", "exited"}
    /\ gor' = [gor EXCEPT !.call[c] = op, !.starts = IF op = "start" THEN @ + 1 ELSE @]
    /\ UNCHANGED <<prov, now, restProv>>

\* Start under p.mu.Lock: return nil when running, else set running.
ProvStartEnter(c) ==
    /\ gor.call[c] = "start"
    /\ prov.mu = {}
    /\ IF ProviderStartAccepts(prov.running)
       THEN /\ prov' = [prov EXCEPT !.running = TRUE]
            /\ gor' = [gor EXCEPT !.call[c] = "connect"]
       ELSE /\ gor' = [gor EXCEPT !.call[c] = "idle", !.startRet = "nil"]
            /\ UNCHANGED prov
    /\ UNCHANGED <<now, restProv>>

\* Start: Connect of each configured source; an error is dropped.
ProvStartConnect(c) ==
    /\ gor.call[c] = "connect"
    /\ \E failed \in SUBSET prov.clients :
        gor' = [gor EXCEPT !.call[c] = "launch", !.failed = Cardinality(failed),
                           !.connects = @ + Cardinality(prov.clients)]
    /\ UNCHANGED <<prov, now, restProv>>

\* Start: go p.collectData(ctx).
ProvStartLaunch(c) ==
    /\ gor.call[c] = "launch"
    /\ \E b \in BuildLoops :
        /\ gor.build[b].pc \in {"none", "exited"}
        /\ gor' = [gor EXCEPT !.call[c] = "subscribe", !.build[b].pc = "wait"]
    /\ UNCHANGED <<prov, now, restProv>>

\* Start: SubscribeLiquidations, SubscribeWhaleAlerts and SubscribeSentiment
\* of the configured sources, each starting a polling goroutine; return nil.
ProvStartSubscribe(c) ==
    /\ gor.call[c] = "subscribe"
    /\ prov' = [prov EXCEPT !.polling = [p \in Producers |->
                                IF p \in prov.clients THEN @[p] + 1 ELSE @[p]]]
    /\ gor' = [gor EXCEPT !.call[c] = "idle", !.startRet = "nil"]
    /\ UNCHANGED <<now, restProv>>

\* Stop under p.mu.Lock: return nil when not running, else clear running.
ProvStopEnter(c) ==
    /\ gor.call[c] = "stop"
    /\ prov.mu = {}
    /\ IF prov.running
       THEN /\ prov' = [prov EXCEPT !.running = FALSE]
            /\ gor' = [gor EXCEPT !.call[c] = "disconnect"]
       ELSE /\ gor' = [gor EXCEPT !.call[c] = "idle"]
            /\ UNCHANGED prov
    /\ UNCHANGED <<now, restProv>>

\* Stop: Disconnect of each configured source, which returns nil and leaves
\* the source's polling goroutines alone; return nil.
ProvStopDisconnect(c) ==
    /\ gor.call[c] = "disconnect"
    /\ gor' = [gor EXCEPT !.call[c] = "idle"]
    /\ UNCHANGED <<prov, now, restProv>>

\* The goroutines that are inside a signal handler called by broadcastSignal.
InHandler == {b \in BuildLoops : gor.build[b].pc = "inHandler"}

\* SubscribeSignals under p.mu.Lock, called by a subscriber of its own
\* (who = 0) or from inside a handler by the broadcasting goroutine who.
ProvSubscribeSignals(who) ==
    /\ who \in {0} \cup InHandler
    /\ prov.mu = {}
    /\ Len(prov.signalHandlers) < MaxHandlers
    /\ prov' = [prov EXCEPT !.signalHandlers = Append(@, Len(@) + 1)]
    /\ UNCHANGED <<gor, now, restProv>>

\* A polling goroutine of Whale Alert has a new alert and calls onWhaleAlert.
ProvOnWhaleAlert ==
    /\ prov.polling["whalealert"] > 0
    /\ prov.mu = {}
    /\ Len(prov.recentWhaleAlerts) < MaxCache
    /\ \E bc \in {"bitcoin", "dogecoin"} :
        /\ prov' = [prov EXCEPT !.recentWhaleAlerts =
                        OnWhaleAlertOf(@, bc, WhaleAlert("binance", "unknown", 50, now), now)]
        /\ gor' = [gor EXCEPT !.whaleTimes =
                        IF MapBlockchainToSymbol(bc) = "" THEN @ ELSE @ \cup {now}]
    /\ UNCHANGED <<now, restProv>>

\* A polling goroutine of CoinGlass has a new liquidation and calls
\* onLiquidation; the next one comes when the one before has left the window.
ProvOnLiquidation ==
    /\ prov.polling["coinglass"] > 0
    /\ prov.mu = {}
    /\ Retained(prov.recentLiquidations, now, 10) = <<>>
    /\ prov' = [prov EXCEPT !.recentLiquidations =
                    OnLiquidationOf(@, Liquidation("long", 10, now), now)]
    /\ UNCHANGED <<gor, now, restProv>>

\* A polling goroutine of LunarCrush has a sentiment and calls onSentimentUpdate.
ProvOnSentimentUpdate ==
    /\ prov.polling["lunarcrush"] > 0
    /\ prov.mu = {}
    /\ prov' = [prov EXCEPT !.recentSentiment = <<50>>]
    /\ UNCHANGED <<gor, now, restProv>>

\* collectData, a tick of the ticker: return when not running, else build.
ProvLoopTick(b) ==
    /\ gor.build[b].pc = "wait"
    /\ gor' = [gor EXCEPT !.build[b].pc = IF prov.running THEN "build" ELSE "exited"]
    /\ UNCHANGED <<prov, now, restProv>>

\* collectData: GetMarketSignal for the symbol, then the call of broadcastSignal.
ProvLoopBuild(b) ==
    /\ gor.build[b].pc = "build"
    /\ \E fr \in {<<>>, <<-500>>}, sent \in {<<>>, <<-50>>} :
        LET got == GetMarketSignalOf(prov, [fundingRate |-> fr, longShortRatio |-> <<>>,
                                            socialSentiment |-> sent], now)
        IN gor' = [gor EXCEPT !.build[b] =
                      IF got.err THEN [@ EXCEPT !.pc = "wait"]
                      ELSE [@ EXCEPT !.pc = "broadcast", !.built = <<got>>,
                                     !.atBegin = prov.signalHandlers]]
    /\ UNCHANGED <<prov, now, restProv>>

\* Mutant of AfterCopy: the read lock is kept until broadcastSignal returns.
AfterCopy_Deferred(readers, b) == readers

\* broadcastSignal: p.mu.RUnlock() after the copy of the handlers.
AfterCopy(readers, b) == readers \ {b}

\* broadcastSignal: p.mu.RLock() and the copy of p.signalHandlers.
ProvBroadcastCopy(b) ==
    /\ gor.build[b].pc = "broadcast"
    /\ prov' = [prov EXCEPT !.mu = @ \cup {b}]
    /\ gor' = [gor EXCEPT !.build[b].pc = "copied", !.build[b].built = <<>>,
                          !.build[b].handlers = prov.signalHandlers, !.build[b].next = 1]
    /\ UNCHANGED <<now, restProv>>

\* broadcastSignal: p.mu.RUnlock().
ProvBroadcastUnlock(b) ==
    /\ gor.build[b].pc = "copied"
    /\ prov' = [prov EXCEPT !.mu = AfterCopy(@, b)]
    /\ gor' = [gor EXCEPT !.build[b].pc = "handlers"]
    /\ UNCHANGED <<now, restProv>>

\* broadcastSignal: handler(signal) for the next handler of the copy.
ProvHandlerCall(b) ==
    /\ gor.build[b].pc = "handlers"
    /\ gor.build[b].next <= Len(gor.build[b].handlers)
    /\ gor' = [gor EXCEPT !.build[b].pc = "inHandler",
                          !.build[b].invoked = Append(@, gor.build[b].handlers[gor.build[b].next])]
    /\ UNCHANGED <<prov, now, restProv>>

\* The handler returns.
ProvHandlerReturn(b) ==
    /\ gor.build[b].pc = "inHandler"
    /\ gor' = [gor EXCEPT !.build[b].pc = "handlers", !.build[b].next = @ + 1]
    /\ UNCHANGED <<prov, now, restProv>>

\* broadcastSignal returns after the last handler; collectData waits for
\* the next tick.
ProvBroadcastReturn(b) ==
    /\ gor.build[b].pc = "handlers"
    /\ gor.build[b].next > Len(gor.build[b].handlers)
    /\ prov' = [prov EXCEPT !.mu = @ \ {b}]
    /\ gor' = [gor EXCEPT !.build[b] = [NoBuild EXCEPT !.pc = "wait"]]
    /\ UNCHANGED <<now, restProv>>

\* Time passes, to minute 20, then to minute 30, then to minute 31.
ProvElapse ==
    /\ now' = (IF now < 20 THEN 20 ELSE IF now < 30 THEN 30 ELSE 31)
    /\ now' > now
    /\ now' <= MaxProvTime
    /\ UNCHANGED <<prov, gor, restProv>>

\* A Provider just constructed, with any of the sources configured.
InitProv ==
    /\ InitChecker
    /\ InitBot(TRUE, MaxPositionSize)
    /\ ai = NONE
    /\ lastCall = NONE
    /\ loops = <<>>
    /\ smu = NONE
    /\ \E clients \in SUBSET Producers : prov = NewProvider(clients)
    /\ gor = NewGor

NextProv ==
    \/ \E c \in ProvCallers, op \in {"start", "stop"} : ProvCall(c, op)
    \/ \E c \in ProvCallers : ProvStartEnter(c)
    \/ \E c \in ProvCallers : ProvStartConnect(c)
    \/ \E c \in ProvCallers : ProvStartLaunch(c)
    \/ \E c \in ProvCallers : ProvStartSubscribe(c)
    \/ \E c \in ProvCallers : ProvStopEnter(c)
    \/ \E c \in ProvCallers : ProvStopDisconnect(c)
    \/ \E who \in {0} \cup BuildLoops : ProvSubscribeSignals(who)
    \/ ProvOnWhaleAlert
    \/ ProvOnLiquidation
    \/ ProvOnSentimentUpdate
    \/ \E b \in BuildLoops : ProvLoopTick(b)
    \/ \E b \in BuildLoops : ProvLoopBuild(b)
    \/ \E b \in BuildLoops : ProvBroadcastCopy(b)
    \/ \E b \in BuildLoops : ProvBroadcastUnlock(b)
    \/ \E b \in BuildLoops : ProvHandlerCall(b)
    \/ \E b \in BuildLoops : ProvHandlerReturn(b)
    \/ \E b \in BuildLoops : ProvBroadcastReturn(b)

SpecProv == InitProv /\ [][NextProv]_vars

\* A Provider with every source configured, started: its sources polling,
\* one collectData goroutine waiting for its ticker.
InitCache ==
    /\ InitChecker
    /\ InitBot(TRUE, MaxPositionSize)
    /\ ai = NONE
    /\ lastCall = NONE
    /\ loops = <<>>
    /\ smu = NONE
    /\ prov = [NewProvider(Producers) EXCEPT !.running = TRUE,
                                             !.polling = [p \in Producers |-> 1]]
    /\ gor = [NewGor EXCEPT !.starts = 1, !.connects = Cardinality(Producers),
                            !.startRet = "nil",
                            !.build = [b \in BuildLoops |-> [NoBuild EXCEPT !.pc = "wait"]]]

\* The cache of a running Provider: the sources' callbacks, the build loop
\* and the clock.
NextCache ==
    \/ ProvOnWhaleAlert
    \/ ProvOnLiquidation
    \/ ProvOnSentimentUpdate
    \/ \E b \in BuildLoops : ProvLoopTick(b)
    \/ \E b \in BuildLoops : ProvLoopBuild(b)
    \/ \E b \in BuildLoops : ProvBroadcastCopy(b)
    \/ \E b \in BuildLoops : ProvBroadcastUnlock(b)
    \/ \E b \in BuildLoops : ProvBroadcastReturn(b)
    \/ ProvElapse

SpecCache == InitCache /\ [][NextCache]_vars

\* ------------------------------------------------ properties of the Provider

\* C21: a broadcast calls every handler registered before it began exactly
\* once, one after the other in registration order, and the provider's lock
\* is not held while a handler runs, so that cache inserts and
\* SubscribeSignals go through while a handler is blocked, also from inside
\* the handler.
C21_FanOut ==
    \A b \in BuildLoops :
        LET r == gor.build[b] IN
        /\ r.pc = "inHandler" => prov.mu = {}
        /\ r.pc \in {"handlers", "inHandler"} =>
            /\ Len(r.invoked) <= Len(prov.signalHandlers)
            /\ r.invoked = SubSeq(prov.signalHandlers, 1, Len(r.invoked))
            /\ \A i, j \in DOMAIN r.invoked : i < j => r.invoked[i] # r.invoked[j]
        /\ (r.pc = "handlers" /\ r.next > Len(r.handlers)) =>
            /\ Len(r.atBegin) <= Len(r.invoked)
            /\ r.atBegin = SubSeq(r.invoked, 1, Len(r.atBegin))

\* A broadcast has called two handlers, the second registered after the
\* broadcast began, and is inside the second.
C21_Witness ==
    \E b \in BuildLoops :
        /\ gor.build[b].pc = "inHandler"
        /\ gor.build[b].invoked = <<1, 2>>
        /\ gor.build[b].atBegin = <<1>>
        /\ prov.recentWhaleAlerts # <<>>

\* Stop has returned after the latest Start: the provider is not running and
\* no call of Start or Stop is in progress.
ProvStopped ==
    /\ gor.starts > 0
    /\ ~prov.running
    /\ \A c \in ProvCallers : gor.call[c] = "idle"

\* C22: after Stop has returned no collectData goroutine starts a new
\* build-and-broadcast cycle (one in flight may finish), and no liquidation,
\* whale alert or sentiment callback changes the cache any more.
C22_StopClosesProducers ==
    [][ProvStopped =>
        /\ \A b \in BuildLoops :
            gor.build[b].pc = "wait" => gor'.build[b].pc # "build"
        /\ prov'.recentWhaleAlerts = prov.recentWhaleAlerts
        /\ prov'.recentLiquidations = prov.recentLiquidations
        /\ prov'.recentSentiment = prov.recentSentiment]_vars

\* C23: Start on a running provider returns nil without a Connect, without
\* a subscription of a source and without another collectData goroutine:
\* the step that tests p.running ends the call and changes nothing else.
C23_StartIdempotent ==
    [][\A c \in ProvCallers :
        (gor.call[c] = "start" /\ gor'.call[c] # "start" /\ prov.running) =>
            /\ gor'.call[c] = "idle"
            /\ prov' = prov
            /\ gor'.connects = gor.connects
            /\ gor'.build = gor.build]_vars

\* Start was called twice on a provider with sources configured; the second
\* call found it running and has returned: one Connect and one polling
\* goroutine for each source, one collectData goroutine.
C23_Witness ==
    /\ gor.starts = 2
    /\ prov.running
    /\ prov.clients # {}
    /\ \A c \in ProvCallers : gor.call[c] = "idle"
    /\ gor.connects = Cardinality(prov.clients)
    /\ \A p \in prov.clients : prov.polling[p] = 1
    /\ \E b \in BuildLoops : gor.build[b].pc # "none"

\* A step in which a Start call that went ahead returns: it returns nil, a
\* polling goroutine runs for every configured source, whichever Connect
\* failed, and a collectData goroutine is alive.
StartDegradesGracefully ==
    \A c \in ProvCallers :
        (gor.call[c] = "subscribe" /\ gor'.call[c] = "idle") =>
            /\ gor'.startRet = "nil"
            /\ \A p \in prov.clients : prov'.polling[p] >= 1
            /\ \E b \in BuildLoops : gor'.build[b].pc \notin {"none", "exited"}

\* The source of an input of the signal, and whether the input was pulled.
Pulled(got, f) ==
    /\ (IF f = "socialSentiment" THEN "lunarcrush" ELSE "coinglass") \in prov.clients
    /\ got.pull[f] # <<>>

\* The signal has no input at all.
NoInputs(s) ==
    /\ s.fundingRate = <<>> /\ s.longShortRatio = <<>> /\ s.socialSentiment = <<>>
    /\ s.recentWhaleAlerts = <<>> /\ s.recentLiquidations = <<>>

C24_AsStated ==
    \A b \in BuildLoops :
        \A i \in DOMAIN gor.build[b].built :
            LET s == gor.build[b].built[i].signal IN
            \A k \in DOMAIN s.recentWhaleAlerts :
                s.timestamp - s.recentWhaleAlerts[k].timestamp < 31


\* C24: a whale alert inserted at t0 is not in a snapshot taken at t0 + 31
\* minutes or later when another whale alert of the symbol was stored at
\* t0 + 30 minutes or later, before the snapshot: the alerts older than 30
\* minutes are dropped by the next insert.
C24_CacheRetention ==
    [][\A b \in BuildLoops :
        (gor.build[b].built = <<>> /\ gor'.build[b].built # <<>>) =>
            LET s == gor'.build[b].built[1].signal IN
            \A k \in DOMAIN s.recentWhaleAlerts :
                LET t0 == s.recentWhaleAlerts[k].timestamp IN
                s.timestamp - t0 >= 31 => ~ \E t \in gor.whaleTimes : t >= t0 + 30]_vars

\* A signal built at minute 31 after whale alerts were stored at minute 0
\* and at minute 30 holds the alert of minute 30 alone.
C24_Witness ==
    \E b \in BuildLoops :
        /\ gor.build[b].built # <<>>
        /\ gor.build[b].built[1].signal.timestamp = 31
        /\ {0, 30} \subseteq gor.whaleTimes
        /\ gor.build[b].built[1].signal.recentWhaleAlerts
                = <<WhaleAlert("binance", "unknown", 50, 30)>>

\* ----------------------------------------- properties of the dispatcher's Start

\* C30: a Start that returns because the exchange connection failed leaves
\* the dispatcher not running, so that ticks are ignored and a later Start
\* is not rejected as already running.
C30_FailedStart ==
    [][\A c \in LifeThreads :
        (life[c].op = "Start" /\ life[c].pc = "connect" /\ life'[c].pc = "idle") =>
            ~running']_vars

\* ------------------------------------------- properties of the dispatcher's Stop

\* Stop has returned after the latest accepted Start: the dispatcher is not
\* running and no lifecycle call is in progress.
BotStopped ==
    /\ obs.starts > 0
    /\ ~running
    /\ \A c \in LifeThreads : life[c].pc = "idle"

\* C31: after Stop has returned the dispatcher calls strategy.OnTick no more
\* and emits no order, also for a tick that passed the test of b.running
\* before Stop cleared the flag.
C31_QuiescenceOnStop ==
    [][BotStopped =>
        /\ ~(tick.pc = "onTick" /\ tick'.pc # "onTick")
        /\ obs'.updates = obs.updates
        /\ obs'.placed = obs.placed]_vars

\* ================================================ teardown of the dispatchers
\* Start and Stop of Bot and of BotUseCase, called by two goroutines; the
\* configuration names the dispatcher the calls are made on.

\* BotUseCase.Start, up to the release of b.mu.
UCStartEnter(c) ==
    /\ life[c].pc = "idle"
    /\ IF StartAccepts(running)
       THEN /\ obs.starts < MaxStarts
            /\ running' = TRUE
            /\ life' = [life EXCEPT ![c] = [op |-> "UCStart", pc |-> "connect", cur |-> TRUE]]
            /\ obs' = [obs EXCEPT !.starts = @ + 1, !.live = @ + 1]
       ELSE /\ obs' = [obs EXCEPT !.rejected = TRUE]
            /\ UNCHANGED <<running, life>>
    /\ UNCHANGED <<risk, mu, now, call, histVars, cfg, auxVars, position, orders, strat, exch, tick>>

\* BotUseCase.Start: b.exchange.Connect; Start returns the error of a failed dial.
UCStartConnect(c) ==
    /\ life[c].op = "UCStart" /\ life[c].pc = "connect"
    /\ \E ok \in BOOLEAN :
        IF ok
        THEN /\ exch' = [exch EXCEPT !.wsConnected = TRUE]
             /\ life' = [life EXCEPT ![c].pc = "subscribe"]
        ELSE /\ life' = [life EXCEPT ![c] = IdleLife]
             /\ UNCHANGED exch
    /\ obs' = [obs EXCEPT !.connects = IF life[c].cur THEN @ + 1 ELSE @]
    /\ UNCHANGED <<risk, mu, now, call, histVars, cfg, auxVars, running, position, orders, strat, tick>>

\* BotUseCase.Start: subscribeMarketData, and the return of Start.
UCStartSubscribe(c) ==
    /\ life[c].op = "UCStart" /\ life[c].pc = "subscribe"
    /\ exch' = [exch EXCEPT !.tickerHandlers = @ + 1]
    /\ obs' = [obs EXCEPT !.subs = IF life[c].cur THEN @ + 1 ELSE @]
    /\ life' = [life EXCEPT ![c] = IdleLife]
    /\ UNCHANGED <<risk, mu, now, call, histVars, cfg, auxVars, running, position, orders, strat, tick>>

\* BotUseCase.Stop, up to the release of b.mu: return nil when not running,
\* else running is cleared.
UCStopEnter(c) ==
    /\ life[c].pc = "idle"
    /\ IF ~running
       THEN UNCHANGED <<running, life, obs>>
       ELSE /\ running' = FALSE
            /\ life' = [x \in LifeThreads |->
                           IF x = c THEN [op |-> "UCStop", pc |-> "cancel", cur |-> FALSE]
                           ELSE [life[x] EXCEPT !.cur = FALSE]]
            /\ obs' = [obs EXCEPT !.live = 0, !.inits = 0, !.connects = 0, !.subs = 0,
                                  !.rejected = FALSE]
    /\ UNCHANGED <<risk, mu, now, call, histVars, cfg, auxVars, position, orders, strat, exch, tick>>

\* BotUseCase.Stop: b.exchange.CancelAllOrders; Stop returns the error of a
\* failed call.
UCStopCancel(c) ==
    /\ life[c].op = "UCStop" /\ life[c].pc = "cancel"
    /\ obs' = [obs EXCEPT !.cancels = @ + 1]
    /\ \E ok \in BOOLEAN :
        life' = [life EXCEPT ![c] = IF ok THEN [@ EXCEPT !.pc = "strategy"] ELSE IdleLife]
    /\ UNCHANGED <<risk, mu, now, call, histVars, cfg, auxVars, running, position, orders, strat, exch, tick>>

\* BotUseCase.Stop: b.strategy.Stop; Stop returns the error of a failed call.
UCStopStrategy(c) ==
    /\ life[c].op = "UCStop" /\ life[c].pc = "strategy"
    /\ \E ok \in BOOLEAN :
        IF ok
        THEN /\ strat' = StopOf(strat)
             /\ life' = [life EXCEPT ![c].pc = "disconnect"]
        ELSE /\ life' = [life EXCEPT ![c] = IdleLife]
             /\ UNCHANGED strat
    /\ UNCHANGED <<risk, mu, now, call, histVars, cfg, auxVars, running, position, orders, exch, tick, obs>>

\* BotUseCase.Stop: b.exchange.Disconnect, and the return of Stop.
UCStopDisconnect(c) ==
    /\ life[c].op = "UCStop" /\ life[c].pc = "disconnect"
    /\ exch' = [exch EXCEPT !.wsConnected = FALSE]
    /\ life' = [life EXCEPT ![c] = IdleLife]
    /\ UNCHANGED <<risk, mu, now, call, histVars, cfg, auxVars, running, position, orders, strat, tick, obs>>

\* A dispatcher just constructed: Bot in either mode, or BotUseCase.
InitStop ==
    /\ InitChecker
    /\ \E d \in {"Bot", "BotUseCase"}, dry \in BOOLEAN :
        /\ d = "BotUseCase" => ~dry
        /\ cfg = [dryRun |-> dry, positionSize |-> MaxPositionSize, dispatcher |-> d]
    /\ running = FALSE
    /\ position = NONE
    /\ orders = <<>>
    /\ strat = NewMeanReversionStrategy
    /\ exch = [wsConnected |-> FALSE, tickerHandlers |-> 0]
    /\ life = [c \in LifeThreads |-> IdleLife]
    /\ tick = IdleTick
    /\ obs = NewObs
    /\ InitAux

\* The calls made on the dispatcher of the configuration.
OnBot(c) == cfg.dispatcher = "Bot" /\ life[c].pc = "idle"
OnBotUseCase(c) == cfg.dispatcher = "BotUseCase" /\ life[c].pc = "idle"

NextStop ==
    \/ \E c \in LifeThreads : OnBot(c) /\ StartEnter(c)
    \/ \E c \in LifeThreads : StartInit(c)
    \/ \E c \in LifeThreads : StartConnect(c)
    \/ \E c \in LifeThreads : StartSubscribe(c)
    \/ \E c \in LifeThreads : OnBot(c) /\ StopEnter(c)
    \/ \E c \in LifeThreads : StopStrategy(c)
    \/ \E c \in LifeThreads : StopCancel(c)
    \/ \E c \in LifeThreads : StopDisconnect(c)
    \/ \E c \in LifeThreads : OnBotUseCase(c) /\ UCStartEnter(c)
    \/ \E c \in LifeThreads : UCStartConnect(c)
    \/ \E c \in LifeThreads : UCStartSubscribe(c)
    \/ \E c \in LifeThreads : OnBotUseCase(c) /\ UCStopEnter(c)
    \/ \E c \in LifeThreads : UCStopCancel(c)
    \/ \E c \in LifeThreads : UCStopStrategy(c)
    \/ \E c \in LifeThreads : UCStopDisconnect(c)

SpecStop == InitStop /\ [][NextStop]_vars

\* A Stop call that was accepted is in progress on c.
Stopping(c) == life[c].op \in {"Stop", "UCStop"}

\* C32: a Stop accepted by a running dispatcher goes through strategy stop,
\* cancel-all-orders (in live mode only) and exchange disconnect, whatever
\* fails on the way: it returns from the disconnect, with the exchange
\* disconnected, and cancels orders only in live mode.
C32_TeardownComplete ==
    [][\A c \in LifeThreads :
        /\ (Stopping(c) /\ life'[c].pc = "idle") =>
                /\ life[c].pc = "disconnect"
                /\ ~exch'.wsConnected
        /\ (Stopping(c) /\ life[c].pc = "cancel") => ~cfg.dryRun]_vars

\* C32 for Bot alone.
BotTeardownComplete ==
    [][cfg.dispatcher = "Bot" =>
        \A c \in LifeThreads :
            /\ (Stopping(c) /\ life'[c].pc = "idle") =>
                    /\ life[c].pc = "disconnect"
                    /\ ~exch'.wsConnected
            /\ (Stopping(c) /\ life[c].pc = "cancel") => ~cfg.dryRun
            /\ (Stopping(c) /\ life[c].pc = "strategy" /\ ~cfg.dryRun) => life'[c].pc \in {"strategy", "cancel"}]_vars

\* ===================== the tick handler and the order handler side by side
\* b.orders is a slice: list is what its elements hold, array names its
\* backing array and cap is the capacity of that array.  The tick handler's
\* state.Orders is a copy of the slice's header: it shares the backing array
\* until an append moves b.orders to a new one.

\* The updates the exchange sends in this specification: one side, and the
\* statuses open, filled and canceled.
SnapUpdates ==
    {o \in OrderUpdates : o.side = SideBuy /\
        o.status \in {OrderStatusOpen, OrderStatusFilled, OrderStatusCanceled}}

\* append on a full array: the runtime allocates an array of twice the capacity.
GrowCap(cap) == IF cap = 0 THEN 1 ELSE 2 * cap

\* The gateway's thread that delivers the order updates; calls: the calls of
\* b.strategy.OnOrderUpdate made for the update it delivered last.
IdleOrd == [pc |-> "idle", order |-> NONE, calls |-> 0]

\* The order handler is between b.mu.Lock() and b.mu.Unlock().
OrdHoldsMu == loops.pc = "locked"

restSnap == <<risk, mu, now, call, histVars, cfg, running, position, exch, life, ai, smu, prov, gor>>

\* onTicker: under b.mu.RLock the running check and the copies of b.position
\* and of the header of b.orders (taken: what the list held at that instant),
\* then the call of b.strategy.OnTick with them.
SnapOnTicker ==
    /\ tick.pc = "idle"
    /\ ~OrdHoldsMu
    /\ running
    /\ tick' = [pc |-> "onTick", position |-> position,
                orders |-> [list |-> orders.list, array |-> orders.array],
                taken |-> orders.list]
    /\ UNCHANGED <<orders, strat, obs, lastCall, loops, restSnap>>

\* OnTick returns; nothing after it in onTicker reads or writes b.orders.
SnapOnTickReturn ==
    /\ tick.pc = "onTick"
    /\ tick' = [pc |-> "idle", position |-> NONE,
                orders |-> [list |-> <<>>, array |-> 0], taken |-> <<>>]
    /\ UNCHANGED <<orders, strat, obs, lastCall, loops, restSnap>>

\* The exchange calls the handler given to SubscribeOrders.
SnapOrderArrive ==
    /\ loops.pc = "idle"
    /\ \E order \in SnapUpdates : loops' = [pc |-> "lock", order |-> order, calls |-> 0]
    /\ UNCHANGED <<orders, strat, obs, lastCall, tick, restSnap>>

\* onOrderUpdate: b.mu.Lock().
SnapOrderLock ==
    /\ loops.pc = "lock"
    /\ loops' = [loops EXCEPT !.pc = "locked"]
    /\ UNCHANGED <<orders, strat, obs, lastCall, tick, restSnap>>

\* onOrderUpdate under b.mu: b.orders[i] = order writes the backing array,
\* and with it every slice that shares the array; append on a full array
\* moves b.orders to a new array.  Then b.mu.Unlock().
SnapOrderStore ==
    /\ loops.pc = "locked"
    /\ LET order == loops.order
           found == \E i \in DOMAIN orders.list : orders.list[i].id = order.id
           list == UpdateOrders(orders.list, order)
           grown == Len(list) > orders.cap
       IN /\ orders' = [list |-> list,
                        cap |-> IF grown THEN GrowCap(orders.cap) ELSE orders.cap,
                        array |-> IF grown THEN orders.array + 1 ELSE orders.array]
          /\ tick' = IF tick.pc = "onTick" /\ found /\ tick.orders.array = orders.array
                     THEN [tick EXCEPT !.orders.list =
                              [i \in DOMAIN @ |-> list[i]]]
                     ELSE tick
    /\ loops' = [loops EXCEPT !.pc = "forward"]
    /\ UNCHANGED <<strat, obs, lastCall, restSnap>>

\* onOrderUpdate after the unlock: b.strategy.OnOrderUpdate; b.position is nil,
\* so that a filled order records no trade.
SnapOrderForward ==
    /\ loops.pc = "forward"
    /\ strat' = OnOrderUpdateOf(strat, loops.order, now)
    /\ lastCall' = [op |-> "OnOrderUpdate", order |-> loops.order]
    /\ loops' = [pc |-> "idle", order |-> NONE, calls |-> loops.calls + 1]
    /\ UNCHANGED <<orders, obs, tick, restSnap>>

\* The dispatcher started in live mode and subscribed; no order known yet.
InitSnap ==
    /\ InitChecker
    /\ cfg = [dryRun |-> FALSE, positionSize |-> MaxPositionSize]
    /\ running = TRUE
    /\ position = NONE
    /\ orders = [list |-> <<>>, cap |-> 0, array |-> 0]
    /\ strat = InitOf(NewMeanReversionStrategy)
    /\ exch = [wsConnected |-> TRUE, tickerHandlers |-> 1]
    /\ life = [c \in LifeThreads |-> IdleLife]
    /\ tick = [pc |-> "idle", position |-> NONE,
               orders |-> [list |-> <<>>, array |-> 0], taken |-> <<>>]
    /\ obs = [NewObs EXCEPT !.starts = 1, !.live = 1, !.inits = 1, !.connects = 1, !.subs = 1]
    /\ ai = NONE
    /\ lastCall = [op |-> NONE, order |-> NONE]
    /\ loops = IdleOrd
    /\ smu = NONE
    /\ prov = NONE
    /\ gor = NONE

NextSnap ==
    \/ SnapOnTicker
    \/ SnapOnTickReturn
    \/ SnapOrderArrive
    \/ SnapOrderLock
    \/ SnapOrderStore
    \/ SnapOrderForward

SpecSnap == InitSnap /\ [][NextSnap]_vars

\* C33: the (position, orders) snapshot that onTicker takes under the read
\* lock and passes to OnTick does not change while OnTick runs, also when an
\* order update for an order ID already tracked is handled at the same time.
C33_CoherentSnapshot ==
    tick.pc = "onTick" =>
        /\ tick.orders.list = tick.taken
        /\ tick.position = position

\* C34: the dispatcher's order list holds at most one entry per order ID; an
\* update whose ID is tracked replaces that entry in place, an update whose ID
\* is not tracked is added only if its status is open; and each update is
\* forwarded to the strategy's OnOrderUpdate exactly once, after the list has
\* been updated and outside the dispatcher's lock.
C34_OrderTracking ==
    [][ LET order == loops.order
            os == orders.list
            ns == orders'.list
        IN /\ \A i, j \in DOMAIN ns : ns[i].id = ns[j].id => i = j
           /\ orders' # orders => loops.pc = "locked" /\ loops'.pc = "forward"
           /\ (loops.pc = "locked" /\ loops'.pc # "locked") =>
                  IF \E i \in DOMAIN os : os[i].id = order.id
                  THEN /\ Len(ns) = Len(os)
                       /\ \A i \in DOMAIN os :
                              ns[i] = IF os[i].id = order.id THEN order ELSE os[i]
                  ELSE IF order.status = OrderStatusOpen
                       THEN ns = Append(os, order)
                       ELSE ns = os
           /\ (lastCall' # lastCall \/ loops'.calls > loops.calls) =>
                  /\ loops.pc = "forward"
                  /\ ~OrdHoldsMu
                  /\ lastCall' = [op |-> "OnOrderUpdate", order |-> order]
           /\ (loops.pc # "idle" /\ loops'.pc = "idle") => loops'.calls = 1 ]_vars

\* An update of a tracked order has replaced it in a list of two orders and
\* has been forwarded.
C34_Witness ==
    /\ Len(orders.list) = 2
    /\ loops.pc = "idle"
    /\ loops.calls = 1
    /\ lastCall.op = "OnOrderUpdate"
    /\ lastCall.order.status = OrderStatusFilled
    /\ orders.list[1] = lastCall.order

\* ================================= the dry-run pipeline over stops and starts
\* One operator thread calls Start and Stop, one read loop delivers the ticks;
\* each call of Start, of Stop and of the ticker handler is taken as a whole.

\* Start calls accepted by a dispatcher that is not running, at most.
MaxRestarts == 2

\* The signal comes from checkEntryConditions.
IsEntry(sig) == sig.reason \in {"Long entry", "Short entry"}

\* The latest order of executeOrder: whether its signal was an entry.
Emitted(entry) == [op |-> "executeOrder", entry |-> entry]

restDry == <<risk, mu, now, call, histVars, cfg, position, orders, life, ai, loops, smu, prov, gor>>

\* Bot.Start: rejected when running; else running is set, the strategy
\* initialised, the exchange connected and the ticker handler subscribed.  A
\* failed Connect returns before the subscription.
DryStart ==
    /\ ~running
    /\ tick.pc = "idle"
    /\ obs.starts < MaxRestarts
    /\ running' = TRUE
    /\ strat' = InitOf(strat)
    /\ \E ok \in BOOLEAN :
        exch' = IF ok THEN [wsConnected |-> TRUE, tickerHandlers |-> exch.tickerHandlers + 1]
                ELSE exch
    /\ obs' = [obs EXCEPT !.starts = @ + 1]
    /\ UNCHANGED <<tick, lastCall, restDry>>

\* Bot.Stop of a running dispatcher in dry-run mode: running is cleared, the
\* strategy stopped and the exchange disconnected.
DryStop ==
    /\ running
    /\ tick.pc = "idle"
    /\ running' = FALSE
    /\ strat' = StopOf(strat)
    /\ exch' = [exch EXCEPT !.wsConnected = FALSE]
    /\ UNCHANGED <<tick, obs, lastCall, restDry>>

\* handleAllMids: a mid price arrives and goes to each registered handler in turn.
DryRead ==
    /\ tick.pc = "idle"
    /\ exch.wsConnected
    /\ exch.tickerHandlers > 0
    /\ obs.updates < MaxEmit
    /\ \E p \in Prices :
        tick' = [pc |-> "onTicker", price |-> p, hleft |-> exch.tickerHandlers, sigs |-> <<>>]
    /\ UNCHANGED <<running, strat, exch, obs, lastCall, restDry>>

\* One call of onTicker: the running check, OnTick, and for the signal it
\* returns the two risk checks and executeOrder, which in dry-run mode hands
\* the order to the strategy as filled.  sigs keeps what OnTick returned.
DryOnTicker ==
    /\ tick.pc = "onTicker"
    /\ IF ~running
       THEN /\ tick' = AfterHandler(tick)
            /\ UNCHANGED <<strat, obs, lastCall>>
       ELSE \E v \in Verdicts :
            LET res == OnTickOf(strat, tick.price, cfg.positionSize, v, now)
                next == AfterHandler(tick)
            IN /\ tick' = [next EXCEPT !.sigs = res.signals]
               /\ IF /\ res.signals # <<>>
                     /\ CanTradeOf(risk, now).Allowed
                     /\ CheckPositionSize(Head(res.signals).qty).Allowed
                  THEN LET order == FilledOf(OrderOf(Head(res.signals))) IN
                       /\ strat' = OnOrderUpdateOf(res.strat, order, now)
                       /\ obs' = [obs EXCEPT !.updates = @ + 1, !.lastUpdate = order]
                       /\ lastCall' = Emitted(IsEntry(Head(res.signals)))
                  ELSE /\ strat' = res.strat
                       /\ UNCHANGED <<obs, lastCall>>
    /\ UNCHANGED <<running, exch, restDry>>

InitDry ==
    /\ InitChecker
    /\ InitBot(TRUE, MaxPositionSize)
    /\ ai = NONE
    /\ lastCall = [op |-> NONE, entry |-> FALSE]
    /\ loops = <<>>
    /\ smu = NONE
    /\ prov = NONE
    /\ gor = NONE

NextDry ==
    \/ DryStart
    \/ DryStop
    \/ DryRead
    \/ DryOnTicker

SpecDry == InitDry /\ [][NextDry]_vars

\* C35: OnTick of the mean-reversion strategy returns no entry signal while
\* the strategy holds a position and no exit signal while it is flat, so that
\* in the dry-run pipeline the simulated fills alternate between an entry and
\* its exit: no entry order is emitted unless the order emitted before it, if
\* any, was an exit, and no exit order unless the one before was an entry.
C35_OnePosition ==
    [][ /\ (tick.pc = "onTicker" /\ tick' # tick) =>
               \A i \in DOMAIN tick'.sigs :
                   IsEntry(tick'.sigs[i]) <=> ~strat.hasPosition
        /\ obs'.updates # obs.updates =>
               IF lastCall'.entry
               THEN lastCall.op = NONE \/ ~lastCall.entry
               ELSE lastCall.op # NONE /\ lastCall.entry ]_vars

\* ====================== the signal-driven strategy following one position
\* The caller holds a position, tells the strategy when it opens and when it
\* closes (OnPositionUpdate), hands it to every tick and forwards the order
\* updates.  The strategy is initialised and is not stopped.  obs.best is the
\* best price since the entry of the position held: the entry price, then the
\* highest tick price of a long and the lowest of a short.

restTrail ==
    <<risk, mu, call, histVars, cfg, running, orders, strat, exch, life, tick,
      loops, smu, prov, gor>>

\* A position opens at 1000: OnPositionUpdate with it.
TrailOpen ==
    /\ lastCall = NoCall
    /\ position.size = 0
    /\ \E sz \in {-1, 1} :
        /\ position' = Position(sz, 1000)
        /\ ai' = AIOnPositionUpdateOf(ai, position')
        /\ obs' = [best |-> position'.entryPrice]
    /\ UNCHANGED <<lastCall, now, restTrail>>

\* The position closes: OnPositionUpdate with size 0.
TrailClose ==
    /\ lastCall = NoCall
    /\ position.size # 0
    /\ position' = Position(0, position.entryPrice)
    /\ ai' = AIOnPositionUpdateOf(ai, position')
    /\ obs' = [best |-> 0]
    /\ UNCHANGED <<lastCall, now, restTrail>>

\* OnTick with the position held, or with none.
TrailOnTick ==
    /\ lastCall = NoCall
    /\ \E price \in AIPrices :
        LET res == AIOnTickOf(ai, position, price, NoMarketSignal, now) IN
        /\ ai' = res.ai
        /\ lastCall' = Called("OnTick", position, price, NoMarketSignal, res.signals)
        /\ obs' = [best |-> IF position.size > 0 /\ price > obs.best THEN price
                            ELSE IF position.size < 0 /\ price < obs.best THEN price
                            ELSE obs.best]
    /\ UNCHANGED <<position, now, restTrail>>

\* The order updates of the caller: any order of AIOrders.
TrailOnOrderUpdate ==
    /\ lastCall = NoCall
    /\ \E order \in AIOrders :
        /\ ai' = AIOnOrderUpdateOf(ai, order, now)
        /\ Abs(ai'.totalPnL) <= MaxStratPnL
    /\ UNCHANGED <<lastCall, now, position, obs, restTrail>>

\* The caller is done with the signals OnTick returned.
TrailReturn ==
    /\ lastCall # NoCall
    /\ lastCall' = NoCall
    /\ UNCHANGED <<ai, now, position, obs, restTrail>>

\* Ten minutes pass.
TrailElapse ==
    /\ lastCall = NoCall
    /\ now + 10 <= MaxStratTime
    /\ now' = now + 10
    /\ UNCHANGED <<ai, lastCall, position, obs, restTrail>>

\* The strategy after Init, no position held.
InitTrail ==
    /\ InitChecker
    /\ cfg = [dryRun |-> TRUE, positionSize |-> MaxPositionSize]
    /\ running = TRUE
    /\ position = NoPosition
    /\ orders = <<>>
    /\ strat = NewMeanReversionStrategy
    /\ exch = [wsConnected |-> TRUE, tickerHandlers |-> 1]
    /\ life = [c \in LifeThreads |-> IdleLife]
    /\ tick = IdleTick
    /\ obs = [best |-> 0]
    /\ \E m \in AIMaxSizes : ai = AIInitOf(NewAISignalStrategy, m)
    /\ lastCall = NoCall
    /\ loops = <<>>
    /\ smu = NONE
    /\ prov = NONE
    /\ gor = NONE

NextTrail ==
    \/ TrailOpen
    \/ TrailClose
    \/ TrailOnTick
    \/ TrailReturn
    \/ TrailOnOrderUpdate
    \/ TrailElapse

SpecTrail == InitTrail /\ [][NextTrail]_vars

\* C36: on every tick with a held position, highestPrice is the best price
\* since the entry of the position held (the maximum of the entry price and
\* the tick prices of a long, the minimum of a short), and so never a value
\* left by an earlier position.
C36_TrailingExtremum ==
    (lastCall.op = "OnTick" /\ position.size # 0) => ai.highestPrice = obs.best

\* ================================ the cache of two symbols and its reader
\* prov holds the three maps of the cache, by symbol.  gor is the goroutine
\* calling GetMarketSignal: between its read of the cache and AnalyzeSignal
\* its signal holds the two slices it copied; shared tells for each whether
\* it still has the array of the stored collection, taken what it held when
\* it was copied.

CacheSymbols == {"BTC", "ETH"}

\* An insert finds at most MaxStored whale alerts of its symbol stored, and
\* fewer liquidations.
MaxStored == 2

\* Mutant of StillShared: the insert filters the stored slice in place.
StillShared_InPlace(shared) == shared

\* filtered := make(...): an insert builds the collection it installs in an
\* array of its own, so a slice that shared the stored collection's array no
\* longer does.
StillShared(shared) == FALSE

\* A slice of an array that an insert writes from its first element on.
Overwritten(view, list) ==
    [i \in DOMAIN view |-> IF i <= Len(list) THEN list[i] ELSE view[i]]

\* The reader's slice of a collection after an insert stored list for it.
ViewAfter(g, kind, symbol, list) ==
    IF g.pc = "analyze" /\ g.symbol = symbol /\ StillShared(g.shared[kind])
    THEN Overwritten(g.signal[kind], list)
    ELSE g.signal[kind]

IdleReader ==
    [pc |-> "idle", symbol |-> "",
     signal |-> [recentWhaleAlerts |-> <<>>, recentLiquidations |-> <<>>,
                 socialSentiment |-> <<>>],
     shared |-> [recentWhaleAlerts |-> FALSE, recentLiquidations |-> FALSE],
     taken |-> [recentWhaleAlerts |-> <<>>, recentLiquidations |-> <<>>],
     result |-> <<>>]

restShare ==
    <<risk, mu, call, histVars, cfg, running, position, orders, strat, exch, life,
      tick, obs, ai, loops, smu>>

\* The latest callback of a source: its name and the blockchain or symbol it
\* was called for.
Callback(op, arg) == [op |-> op, arg |-> arg]

\* onWhaleAlert under p.mu, for an alert of one of the blockchains bcs.
ShareOnWhaleAlert(bcs) ==
    /\ \E bc \in bcs :
        LET symbol == MapBlockchainToSymbol(bc)
            alert == WhaleAlert("binance", "unknown", 50, now)
        IN /\ lastCall' = Callback("onWhaleAlert", bc)
           /\ IF symbol = ""
              THEN UNCHANGED <<prov, gor>>
              ELSE LET list == Append(Retained(prov.recentWhaleAlerts[symbol], now, 30), alert)
                   IN /\ Len(prov.recentWhaleAlerts[symbol]) <= MaxStored
                      /\ prov' = [prov EXCEPT !.recentWhaleAlerts[symbol] = list]
                      /\ gor' = [gor EXCEPT
                            !.signal.recentWhaleAlerts =
                                ViewAfter(gor, "recentWhaleAlerts", symbol, list),
                            !.shared.recentWhaleAlerts =
                                IF gor.symbol = symbol THEN StillShared(@) ELSE @]
    /\ UNCHANGED <<now, restShare>>

\* onLiquidation under p.mu, for a liquidation of one of the symbols.
ShareOnLiquidation(symbols) ==
    /\ \E symbol \in symbols :
        LET list == OnLiquidationOf(prov.recentLiquidations[symbol],
                                    Liquidation("long", 10, now), now) IN
        /\ Len(prov.recentLiquidations[symbol]) < MaxStored
        /\ lastCall' = Callback("onLiquidation", symbol)
        /\ prov' = [prov EXCEPT !.recentLiquidations[symbol] = list]
        /\ gor' = [gor EXCEPT
              !.signal.recentLiquidations = ViewAfter(gor, "recentLiquidations", symbol, list),
              !.shared.recentLiquidations = IF gor.symbol = symbol THEN StillShared(@) ELSE @]
    /\ UNCHANGED <<now, restShare>>

\* onSentimentUpdate under p.mu, for one of the symbols.
ShareOnSentimentUpdate(symbols) ==
    /\ \E symbol \in symbols :
        /\ prov' = [prov EXCEPT !.recentSentiment[symbol] = <<50>>]
        /\ lastCall' = Callback("onSentimentUpdate", symbol)
    /\ UNCHANGED <<gor, now, restShare>>

\* GetMarketSignal("BTC") up to p.mu.RUnlock(): the sentiment pulled, or not,
\* and the cache of the symbol read under the read lock.
ShareRead ==
    /\ gor.pc = "idle"
    /\ \E symbol \in {"BTC"}, sent \in {<<>>, <<-50>>} :
        gor' = [pc |-> "analyze", symbol |-> symbol,
                signal |-> [recentWhaleAlerts |-> prov.recentWhaleAlerts[symbol],
                            recentLiquidations |-> prov.recentLiquidations[symbol],
                            socialSentiment |-> IF sent = <<>> THEN prov.recentSentiment[symbol]
                                                ELSE sent],
                shared |-> [recentWhaleAlerts |-> TRUE, recentLiquidations |-> TRUE],
                taken |-> [recentWhaleAlerts |-> prov.recentWhaleAlerts[symbol],
                           recentLiquidations |-> prov.recentLiquidations[symbol]],
                result |-> <<>>]
    /\ UNCHANGED <<prov, now, lastCall, restShare>>

\* GetMarketSignal after the unlock: AnalyzeSignal on the signal.
ShareAnalyze ==
    /\ gor.pc = "analyze"
    /\ gor' = [gor EXCEPT !.pc = "return",
                          !.result = <<AnalyzeSignal(
                              [timestamp |-> now, fundingRate |-> <<>>, longShortRatio |-> <<>>,
                               recentWhaleAlerts |-> gor.signal.recentWhaleAlerts,
                               recentLiquidations |-> gor.signal.recentLiquidations,
                               socialSentiment |-> gor.signal.socialSentiment,
                               fedCutProb |-> 0, fedHikeProb |-> 0])>>]
    /\ UNCHANGED <<prov, now, lastCall, restShare>>

\* GetMarketSignal returns the signal.
ShareReturn ==
    /\ gor.pc = "return"
    /\ gor' = IdleReader
    /\ UNCHANGED <<prov, now, lastCall, restShare>>

\* Time passes, to minute 20, then to minute 30, then to minute 31.
ShareElapse ==
    /\ now' = (IF now < 20 THEN 20 ELSE IF now < 30 THEN 30 ELSE 31)
    /\ now' <= MaxProvTime
    /\ lastCall' = Callback(NONE, "")
    /\ UNCHANGED <<prov, gor, restShare>>

\* A running Provider, its cache empty.
InitShare ==
    /\ InitChecker
    /\ InitBot(TRUE, MaxPositionSize)
    /\ ai = NONE
    /\ lastCall = Callback(NONE, "")
    /\ loops = <<>>
    /\ smu = NONE
    /\ prov = [recentWhaleAlerts |-> [s \in CacheSymbols |-> <<>>],
               recentLiquidations |-> [s \in CacheSymbols |-> <<>>],
               recentSentiment |-> [s \in CacheSymbols |-> <<>>]]
    /\ gor = IdleReader

\* The cache of one symbol with the reader of its signal.
NextShare ==
    \/ ShareOnWhaleAlert({"bitcoin", "dogecoin"})
    \/ ShareOnLiquidation({"BTC"})
    \/ ShareOnSentimentUpdate({"BTC"})
    \/ ShareRead
    \/ ShareAnalyze
    \/ ShareReturn
    \/ ShareElapse

SpecShare == InitShare /\ [][NextShare]_vars

\* The cache of two symbols, no signal being built: whale alerts of both,
\* liquidations and sentiment of one.
NextEvict ==
    \/ ShareOnWhaleAlert({"bitcoin", "ethereum", "dogecoin"})
    \/ ShareOnLiquidation({"BTC"})
    \/ ShareOnSentimentUpdate({"BTC"})
    \/ ShareElapse

SpecEvict == InitShare /\ [][NextEvict]_vars

\* The signal AnalyzeSignal is given when the reader's slices hold what was
\* stored at the instant of the read.
SignalTaken(g) ==
    [timestamp |-> now, fundingRate |-> <<>>, longShortRatio |-> <<>>,
     recentWhaleAlerts |-> g.taken.recentWhaleAlerts,
     recentLiquidations |-> g.taken.recentLiquidations,
     socialSentiment |-> g.signal.socialSentiment,
     fedCutProb |-> 0, fedHikeProb |-> 0]

\* C37: the whale-alert and liquidation collections that GetMarketSignal reads
\* under the read lock are not modified afterwards by concurrent inserts (each
\* insert installs a new collection), so the fuser works on exactly the
\* entries that were stored at the instant of the read.
C37_SnapshotConsistency ==
    /\ gor.pc = "analyze" =>
           /\ gor.signal.recentWhaleAlerts = gor.taken.recentWhaleAlerts
           /\ gor.signal.recentLiquidations = gor.taken.recentLiquidations
    /\ gor.pc = "return" => gor.result = <<AnalyzeSignal(SignalTaken(gor))>>

\* The fuser has worked on a whale alert and a liquidation that inserts made
\* after the read have since evicted from the cache.
C37_Witness ==
    /\ gor.pc = "return"
    /\ gor.taken.recentWhaleAlerts # <<>>
    /\ gor.taken.recentLiquidations # <<>>
    /\ \A i \in DOMAIN prov.recentWhaleAlerts["BTC"] :
           prov.recentWhaleAlerts["BTC"][i] # gor.taken.recentWhaleAlerts[1]
    /\ prov.recentWhaleAlerts["BTC"] # <<>>
    /\ \A i \in DOMAIN prov.recentLiquidations["BTC"] :
           prov.recentLiquidations["BTC"][i] # gor.taken.recentLiquidations[1]
    /\ prov.recentLiquidations["BTC"] # <<>>

\* C38: immediately after onWhaleAlert (onLiquidation) at time t the
\* collection of the symbol is the entries stored before whose timestamp is
\* later than t - 30 minutes (t - 10 minutes), in their previous order,
\* followed by the new entry; the collections of the other symbols and the
\* stored sentiment are unchanged; a whale alert whose blockchain is not
\* bitcoin, ethereum, solana or tron leaves the whole cache unchanged.
C38_EvictionOnInsert ==
    [][ LET whales == prov.recentWhaleAlerts
            liqs == prov.recentLiquidations
            arg == lastCall'.arg
            symbol == IF arg = "bitcoin" THEN "BTC" ELSE IF arg = "ethereum" THEN "ETH" ELSE arg
        IN /\ lastCall'.op = "onWhaleAlert" =>
                  IF arg \in {"bitcoin", "ethereum", "solana", "tron"}
                  THEN /\ prov'.recentWhaleAlerts[symbol] =
                              SelectSeq(whales[symbol], LAMBDA e : e.timestamp > now - 30)
                              \o <<WhaleAlert("binance", "unknown", 50, now)>>
                       /\ \A s \in CacheSymbols \ {symbol} : prov'.recentWhaleAlerts[s] = whales[s]
                       /\ prov'.recentLiquidations = liqs
                       /\ prov'.recentSentiment = prov.recentSentiment
                  ELSE prov' = prov
           /\ lastCall'.op = "onLiquidation" =>
                  /\ prov'.recentLiquidations[symbol] =
                         SelectSeq(liqs[symbol], LAMBDA e : e.timestamp > now - 10)
                         \o <<Liquidation("long", 10, now)>>
                  /\ \A s \in CacheSymbols \ {symbol} : prov'.recentLiquidations[s] = liqs[s]
                  /\ prov'.recentWhaleAlerts = whales
                  /\ prov'.recentSentiment = prov.recentSentiment ]_vars

\* A bitcoin alert inserted at minute 30 has evicted the alert of minute 0 and
\* kept the one of minute 20, with alerts, liquidations and sentiment of both
\* symbols stored.
C38_Witness ==
    /\ now = 30
    /\ lastCall = Callback("onWhaleAlert", "bitcoin")
    /\ Len(prov.recentWhaleAlerts["BTC"]) = 2
    /\ prov.recentWhaleAlerts["BTC"][1].timestamp = 20
    /\ prov.recentWhaleAlerts["BTC"][2].timestamp = 30
    /\ prov.recentWhaleAlerts["ETH"] # <<>>
    /\ prov.recentWhaleAlerts["ETH"][1].timestamp = 0
    /\ prov.recentLiquidations["BTC"] # <<>>
    /\ prov.recentSentiment["BTC"] # <<>>

\* The caller t executes the body of the operation op in this step.
Executes(t, op) == call[t].op = op /\ call[t].pc = "body" /\ call'[t].pc = "unlock"

\* C39: Resume clears the halt flag and consecutiveLoss and leaves dailyPnL
\* and cooldownUntil unchanged, so that a cooldown or a daily-loss denial in
\* force before the call is still in force after it; ResetDaily sets dailyPnL
\* to 0 and leaves the halt flag, consecutiveLoss and cooldownUntil unchanged;
\* Halt changes only the halt flag and the reason.
C39_SwitchFrames ==
    [][ \A t \in RiskThreads :
          /\ Executes(t, "Resume") =>
                /\ ~risk'.halted
                /\ risk'.consecutiveLoss = 0
                /\ risk'.dailyPnL = risk.dailyPnL
                /\ risk'.cooldownUntil = risk.cooldownUntil
                /\ (now < risk.cooldownUntil \/ risk.dailyPnL < -MaxDailyLoss) =>
                       /\ ~CanTradeOf(risk', now).Allowed
                       /\ CanTradeOf(risk', now) = CanTradeOf([risk EXCEPT !.halted = FALSE], now)
          /\ Executes(t, "ResetDaily") =>
                /\ risk'.dailyPnL = 0
                /\ risk'.halted = risk.halted
                /\ risk'.consecutiveLoss = risk.consecutiveLoss
                /\ risk'.cooldownUntil = risk.cooldownUntil
          /\ Executes(t, "Halt") =>
                /\ risk'.halted
                /\ risk'.haltReason = call[t].reason
                /\ risk'.dailyPnL = risk.dailyPnL
                /\ risk'.consecutiveLoss = risk.consecutiveLoss
                /\ risk'.cooldownUntil = risk.cooldownUntil ]_vars

\* The body of Resume has just run while a cooldown is pending and the daily
\* loss is beyond its limit.
C39_Witness ==
    \E t \in RiskThreads :
        /\ call[t].op = "Resume" /\ call[t].pc = "unlock"
        /\ ~risk.halted
        /\ risk.consecutiveLoss = 0
        /\ now < risk.cooldownUntil
        /\ risk.dailyPnL < -MaxDailyLoss

(***************************************************************************)
(* The collectData goroutines over starts and stops of the provider.       *)
(* Provider.Start launches one goroutine per accepted call                  *)
(* (provider_test.go:385-444); Provider.Stop clears p.running and returns   *)
(* without waiting for it (447-467); the goroutine reads p.running only     *)
(* when its own 30 s ticker fires (470-496).  gor maps each goroutine to    *)
(* its position and the time of its next tick, obs records the time of     *)
(* the last broadcast of the symbol's signal to the subscriber.            *)
(***************************************************************************)
MaxLoops == 2

MaxLoopTime == 60

TickerPeriod == 30

\* The clock of this specification advances by a third of a ticker period.
LoopStep == TickerPeriod \div 3

LoopSlots == 1..MaxLoops

NoLoop == [pc |-> "none", next |-> 0]

ActiveLoops(g) == {b \in LoopSlots : g[b].pc = "wait"}

restLoop ==
    <<risk, mu, call, ledger, haltActive, streak, cooldownFrom, cooldownPrev,
      cfg, running, position, orders, strat, exch, life, tick, ai, loops, smu>>

\* Provider.Start: a call that finds p.running set returns nil; otherwise it
\* sets the flag and launches collectData, whose ticker first fires one
\* period later.
LoopStart ==
    /\ IF prov.running
          THEN UNCHANGED <<prov, gor>>
          ELSE \E b \in LoopSlots :
                  /\ gor[b].pc # "wait"
                  /\ \A c \in LoopSlots : (c < b) => gor[c].pc = "wait"
                  /\ prov' = [prov EXCEPT !.running = TRUE]
                  /\ gor' = [gor EXCEPT ![b] =
                               [pc |-> "wait", next |-> now + TickerPeriod]]
    /\ lastCall' = [op |-> "Start", at |-> now]
    /\ UNCHANGED <<now, obs>>
    /\ UNCHANGED restLoop

\* Provider.Stop: clears the flag when it is set; the goroutines are left to
\* find it at their next tick.
LoopStop ==
    /\ prov' = [prov EXCEPT !.running = FALSE]
    /\ lastCall' = [op |-> "Stop", at |-> now]
    /\ UNCHANGED <<now, obs, gor>>
    /\ UNCHANGED restLoop

\* One firing of a collectData ticker: the goroutine returns when the flag
\* is clear, else it builds the symbol's signal and broadcasts it.
LoopTick(b) ==
    /\ gor[b].pc = "wait"
    /\ gor[b].next = now
    /\ IF prov.running
          THEN /\ gor' = [gor EXCEPT ![b].next = now + TickerPeriod]
               /\ obs' = [last |-> now, prev |-> obs.last,
                          count |-> obs.count + 1]
               /\ lastCall' = [op |-> "broadcast", at |-> now]
          ELSE /\ gor' = [gor EXCEPT ![b].pc = "exited"]
               /\ lastCall' = [op |-> "exit", at |-> now]
               /\ UNCHANGED obs
    /\ UNCHANGED <<now, prov>>
    /\ UNCHANGED restLoop

\* Time passes; a ticker that is due fires before the clock moves on.
LoopElapse ==
    /\ now + LoopStep <= MaxLoopTime
    /\ \A b \in LoopSlots : gor[b].pc = "wait" => gor[b].next > now
    /\ now' = now + LoopStep
    /\ UNCHANGED <<prov, gor, obs, lastCall>>
    /\ UNCHANGED restLoop

InitLoop ==
    /\ InitChecker
    /\ cfg = [dryRun |-> TRUE, positionSize |-> MaxPositionSize]
    /\ running = FALSE
    /\ position = NONE
    /\ orders = <<>>
    /\ strat = NewMeanReversionStrategy
    /\ exch = [wsConnected |-> FALSE, tickerHandlers |-> 0]
    /\ life = [c \in LifeThreads |-> IdleLife]
    /\ tick = IdleTick
    /\ ai = NONE
    /\ loops = <<>>
    /\ smu = NONE
    /\ prov = [running |-> FALSE]
    /\ gor = [b \in LoopSlots |-> NoLoop]
    /\ obs = [last |-> -TickerPeriod, prev |-> -TickerPeriod, count |-> 0]
    /\ lastCall = [op |-> NONE, at |-> 0]

NextLoop ==
    \/ LoopStart
    \/ LoopStop
    \/ \E b \in LoopSlots : LoopTick(b)
    \/ LoopElapse

SpecLoop == InitLoop /\ [][NextLoop]_vars

\* C40: over any sequence of Start and Stop calls on the provider, a Start
\* less than one build interval after a Stop included, at most one
\* collectData loop is active, and two broadcasts of the symbol's signal to
\* the subscriber are at least one 30 s build cycle apart.
C40_SingleBuildLoop ==
    /\ Cardinality(ActiveLoops(gor)) <= 1
    /\ (obs.count >= 2) => (obs.last - obs.prev >= TickerPeriod)

====
